---- MODULE Spec2Model ----
(***************************************************************************)
(* Model of the I2C peripheral layer of XiaomiAIoT-U2: the bus handle      *)
(* (I2CBase), the device codecs (PCA9685, E2PCA9685, HT16K33, E3Door,      *)
(* S1KeyPad and the copies in fixed_manager.py) and the board managers     *)
(* (E1, E2, E3, S1).                                                       *)
(*                                                                         *)
(* Every method is a total operator over a "world" record w that is        *)
(* threaded through the calls in the order the Python code makes them:     *)
(*   w.bus    the I2CBase objects, one per bus number: [fd, address]       *)
(*   w.log    the system calls issued so far in this call, in order        *)
(*   w.n      the number of os.write / os.read transfers issued so far     *)
(*   w.glitch the transfers (by their number) that the kernel fails        *)
(*   w.rx     the bytes a block read returns when it succeeds              *)
(*   w.ret / w.val   the value the last method returned                    *)
(* A device method returns [w |-> world, d |-> the device object].         *)
(***************************************************************************)
EXTENDS Integers, Sequences, FiniteSets, TLC

VARIABLES
    openable,      \* bus numbers whose /dev/i2c-N can be opened
    answers,       \* <<bus, address>> pairs at which a read is acknowledged
    bus,           \* the I2CBase objects: bus number -> [fd, address]
    dev,           \* a device object driven directly by its caller
    buses,         \* E1DeviceManager.buses (its keys)
    led_devices,   \* E1DeviceManager.led_devices: address -> device
    tube_devices,  \* E1DeviceManager.tube_devices: address -> device
    led,           \* fixed_manager.E1DeviceManager.led
    tube,          \* fixed_manager.E1DeviceManager.tube
    fan,           \* E2DeviceManager.fan
    door,          \* E3DeviceManager.door
    keypad,        \* S1DeviceManager.keypad
    i2c,           \* the manager's retained bus (self.i2c), a bus number or None
    mgr,           \* the class of the manager object constructed, "None" before
    call,          \* the last operation called, with its arguments
    log,           \* the system calls that operation issued, in order
    result         \* what it returned: [ok, val]

vars == <<openable, answers, bus, dev, buses, led_devices, tube_devices,
          led, tube, fan, door, keypad, i2c, mgr, call, log, result>>

----------------------------------------------------------------------------
(* Bounds of the model                                                     *)

\* transfers of one call that may be failed individually
MaxXfer == 16
\* ticks and colour components are drawn from -TickSlack .. and .. + TickSlack
TickSlack == 1

----------------------------------------------------------------------------
(* Python values                                                           *)

None == -2
FD_CLOSED == -1

Truthy(x) == x # None /\ x # 0

Max(a, b) == IF a >= b THEN a ELSE b
Min(a, b) == IF a <= b THEN a ELSE b

\* x & 0xFF and (x >> 8) & 0xFF for a non-negative x
LowByte(x) == x % 256
HighByte(x) == (x \div 256) % 256

BusNums == 0 .. 5

NoHandle == [fd |-> FD_CLOSED, address |-> None]

NoDev == [cls |-> "None", bus |-> None, address |-> None, is_initialized |-> FALSE]

NewDev(cls, b, a) == [cls |-> cls, bus |-> b, address |-> a, is_initialized |-> FALSE]

NewWorld(handles, glitch, rx) ==
    [bus |-> handles, log |-> <<>>, n |-> 0, glitch |-> glitch, rx |-> rx,
     gc |-> TRUE, ret |-> FALSE, val |-> 0]

\* the failure patterns of one call: none, one transfer, or all from one on
GlitchSets ==
    {{}} \cup {{k} : k \in 1 .. MaxXfer} \cup {k .. MaxXfer : k \in 1 .. MaxXfer}

----------------------------------------------------------------------------
(* I2CBase                                                                 *)

Event(op, b, a, data, ok) == [op |-> op, bus |-> b, addr |-> a, data |-> data, ok |-> ok]

\* one os.write / os.read on the descriptor of bus b
Xfer(w, b, op, data) ==
    LET k  == w.n + 1
        a  == w.bus[b].address
        ok == k \notin w.glitch /\ (op = "read" => <<b, a>> \in answers)
    IN  [w EXCEPT !.n = k, !.log = Append(@, Event(op, b, a, data, ok)), !.ret = ok]

I2C_open(w, b) ==
    IF b \in openable
    THEN [w EXCEPT !.bus[b].fd = b + 3, !.log = Append(@, Event("open", b, None, <<>>, TRUE)),
                   !.ret = TRUE]
    ELSE [w EXCEPT !.ret = FALSE]

\* I2CBase(dev_path)
I2C_new(w, b) == I2C_open([w EXCEPT !.bus[b] = NoHandle], b)

\* close that releases whatever fd holds
Mut_I2C_close_unguarded(w, b) ==
    [w EXCEPT !.bus[b].fd = FD_CLOSED,
              !.log = Append(@, Event("close", b, w.bus[b].address, <<>>, TRUE))]

I2C_close(w, b) ==
    IF w.bus[b].fd > 0
    THEN [w EXCEPT !.bus[b].fd = FD_CLOSED,
                   !.log = Append(@, Event("close", b, w.bus[b].address, <<>>, TRUE))]
    ELSE w

\* the last reference to an open I2CBase goes: __del__ closes it when the
\* object is collected, which the interpreter may do at once or not at all
I2C_del(w, b) == IF w.gc THEN I2C_close(w, b) ELSE w

I2C_set_address(w, b, address) ==
    IF w.bus[b].fd <= 0
    THEN [w EXCEPT !.ret = FALSE]
    ELSE [w EXCEPT !.bus[b].address = address,
                   !.log = Append(@, Event("select", b, address, <<>>, TRUE)),
                   !.ret = TRUE]

I2C_write_byte(w, b, data) ==
    IF w.bus[b].fd <= 0 THEN [w EXCEPT !.ret = FALSE] ELSE Xfer(w, b, "write", <<data>>)

I2C_read_byte(w, b) ==
    IF w.bus[b].fd <= 0
    THEN [w EXCEPT !.ret = FALSE, !.val = 0]
    ELSE [Xfer(w, b, "read", <<>>) EXCEPT !.val = 0]

I2C_write_byte_data(w, b, reg, data) ==
    IF w.bus[b].fd <= 0 THEN [w EXCEPT !.ret = FALSE] ELSE Xfer(w, b, "write", <<reg, data>>)

I2C_read_byte_data(w, b, reg) ==
    IF w.bus[b].fd <= 0
    THEN [w EXCEPT !.ret = FALSE, !.val = 0]
    ELSE LET w1 == Xfer(w, b, "write", <<reg>>)
         IN  IF ~w1.ret THEN [w1 EXCEPT !.val = 0]
             ELSE [Xfer(w1, b, "read", <<>>) EXCEPT !.val = 0]

I2C_write_block_data(w, b, reg, data) ==
    IF w.bus[b].fd <= 0 THEN [w EXCEPT !.ret = FALSE] ELSE Xfer(w, b, "write", <<reg>> \o data)

\* a and b and c and d over register writes: stops at the first that fails
RECURSIVE AndWrites(_, _, _)
AndWrites(w, b, regvals) ==
    IF regvals = <<>> THEN [w EXCEPT !.ret = TRUE]
    ELSE LET w1 == I2C_write_byte_data(w, b, regvals[1][1], regvals[1][2])
         IN  IF ~w1.ret THEN w1 ELSE AndWrites(w1, b, Tail(regvals))

----------------------------------------------------------------------------
(* PWM codecs: PCA9685 (i2c_lib), E2PCA9685, PCA9685 (fixed_manager)       *)

MODE1 == 0
LED0_ON_L == 6
LED0_ON_H == 7
LED0_OFF_L == 8
LED0_OFF_H == 9
ALLLED_ON_L == 250
ALLLED_ON_H == 251
ALLLED_OFF_L == 252
ALLLED_OFF_H == 253
CH0_ON_L == 6
CH0_ON_H == 7
CH0_OFF_L == 8
CH0_OFF_H == 9
ALLCH_ON_L == 250
ALLCH_ON_H == 251
ALLCH_OFF_L == 252
ALLCH_OFF_H == 253

PCA9685_ADDRESSES == <<96, 97, 98, 99>>
E2_ADDRESSES == <<100, 101, 102, 103>>

Fail(w, d) == [w |-> [w EXCEPT !.ret = FALSE], d |-> d]

\* mutant: off is written without being clamped
Mut_PCA9685_set_pwm_noclamp(w, d, channel, on, off) ==
    IF ~d.is_initialized THEN Fail(w, d)
    ELSE IF channel < 0 \/ channel > 15 THEN Fail(w, d)
    ELSE LET on1  == Max(0, Min(4095, on))
             off1 == off
         IN  [w |-> AndWrites(w, d.bus,
                        << <<LED0_ON_L + 4 * channel, LowByte(on1)>>,
                           <<LED0_ON_H + 4 * channel, HighByte(on1)>>,
                           <<LED0_OFF_L + 4 * channel, LowByte(off1)>>,
                           <<LED0_OFF_H + 4 * channel, HighByte(off1)>> >>),
              d |-> d]

PCA9685_set_pwm(w, d, channel, on, off) ==
    IF ~d.is_initialized THEN Fail(w, d)
    ELSE IF channel < 0 \/ channel > 15 THEN Fail(w, d)
    ELSE LET on1  == Max(0, Min(4095, on))
             off1 == Max(0, Min(4095, off))
         IN  [w |-> AndWrites(w, d.bus,
                        << <<LED0_ON_L + 4 * channel, LowByte(on1)>>,
                           <<LED0_ON_H + 4 * channel, HighByte(on1)>>,
                           <<LED0_OFF_L + 4 * channel, LowByte(off1)>>,
                           <<LED0_OFF_H + 4 * channel, HighByte(off1)>> >>),
              d |-> d]

\* set_pwm that clamps the channel into 0..15 as it clamps the ticks
Mut_E2PCA9685_set_pwm_clamps_channel(w, d, channel, on, off) ==
    IF ~d.is_initialized THEN Fail(w, d)
    ELSE LET ch   == Max(0, Min(15, channel))
             on1  == Max(0, Min(4095, on))
             off1 == Max(0, Min(4095, off))
         IN  [w |-> AndWrites(w, d.bus,
                        << <<CH0_ON_L + 4 * ch, LowByte(on1)>>,
                           <<CH0_ON_H + 4 * ch, HighByte(on1)>>,
                           <<CH0_OFF_L + 4 * ch, LowByte(off1)>>,
                           <<CH0_OFF_H + 4 * ch, HighByte(off1)>> >>),
              d |-> d]

E2PCA9685_set_pwm(w, d, channel, on, off) ==
    IF ~d.is_initialized THEN Fail(w, d)
    ELSE IF channel < 0 \/ channel > 15 THEN Fail(w, d)
    ELSE LET on1  == Max(0, Min(4095, on))
             off1 == Max(0, Min(4095, off))
         IN  [w |-> AndWrites(w, d.bus,
                        << <<CH0_ON_L + 4 * channel, LowByte(on1)>>,
                           <<CH0_ON_H + 4 * channel, HighByte(on1)>>,
                           <<CH0_OFF_L + 4 * channel, LowByte(off1)>>,
                           <<CH0_OFF_H + 4 * channel, HighByte(off1)>> >>),
              d |-> d]

Fixed_PCA9685_set_pwm(w, d, channel, on, off) ==
    IF ~d.is_initialized THEN Fail(w, d)
    ELSE IF channel < 0 \/ channel > 15 THEN Fail(w, d)
    ELSE LET on1  == Max(0, Min(4095, on))
             off1 == Max(0, Min(4095, off))
         IN  [w |-> AndWrites(w, d.bus,
                        << <<LED0_ON_L + 4 * channel, LowByte(on1)>>,
                           <<LED0_ON_H + 4 * channel, HighByte(on1)>>,
                           <<LED0_OFF_L + 4 * channel, LowByte(off1)>>,
                           <<LED0_OFF_H + 4 * channel, HighByte(off1)>> >>),
              d |-> d]

PCA9685_set_all_pwm(w, d, on, off) ==
    IF ~d.is_initialized THEN Fail(w, d)
    ELSE LET on1  == Max(0, Min(4095, on))
             off1 == Max(0, Min(4095, off))
         IN  [w |-> AndWrites(w, d.bus,
                        << <<ALLLED_ON_L, LowByte(on1)>>, <<ALLLED_ON_H, HighByte(on1)>>,
                           <<ALLLED_OFF_L, LowByte(off1)>>, <<ALLLED_OFF_H, HighByte(off1)>> >>),
              d |-> d]

E2PCA9685_set_all_pwm(w, d, on, off) ==
    IF ~d.is_initialized /\ d.address = None THEN Fail(w, d)
    ELSE LET on1  == Max(0, Min(4095, on))
             off1 == Max(0, Min(4095, off))
         IN  [w |-> AndWrites(w, d.bus,
                        << <<ALLCH_ON_L, LowByte(on1)>>, <<ALLCH_ON_H, HighByte(on1)>>,
                           <<ALLCH_OFF_L, LowByte(off1)>>, <<ALLCH_OFF_H, HighByte(off1)>> >>),
              d |-> d]

Fixed_PCA9685_set_all_pwm(w, d, on, off) ==
    IF ~d.is_initialized /\ d.address = None THEN Fail(w, d)
    ELSE LET on1  == Max(0, Min(4095, on))
             off1 == Max(0, Min(4095, off))
         IN  [w |-> AndWrites(w, d.bus,
                        << <<ALLLED_ON_L, LowByte(on1)>>, <<ALLLED_ON_H, HighByte(on1)>>,
                           <<ALLLED_OFF_L, LowByte(off1)>>, <<ALLLED_OFF_H, HighByte(off1)>> >>),
              d |-> d]

\* the result of set_all_pwm is dropped, and it runs before is_initialized is set
PCA9685_initialize(w, d) ==
    IF d.bus = None \/ ~Truthy(d.address) THEN Fail(w, d)
    ELSE LET w1 == I2C_write_byte_data(w, d.bus, MODE1, 0)
         IN  IF ~w1.ret THEN [w |-> w1, d |-> d]
             ELSE LET r == PCA9685_set_all_pwm(w1, d, 0, 0)
                  IN  [w |-> [r.w EXCEPT !.ret = TRUE],
                       d |-> [r.d EXCEPT !.is_initialized = TRUE]]

E2PCA9685_initialize(w, d) ==
    IF d.bus = None \/ ~Truthy(d.address) THEN Fail(w, d)
    ELSE LET w1 == I2C_write_byte_data(w, d.bus, MODE1, 0)
         IN  IF ~w1.ret THEN [w |-> w1, d |-> d]
             ELSE LET r == E2PCA9685_set_all_pwm(w1, d, 0, 0)
                  IN  IF ~r.w.ret THEN r
                      ELSE [w |-> [r.w EXCEPT !.ret = TRUE],
                            d |-> [r.d EXCEPT !.is_initialized = TRUE]]

Fixed_PCA9685_initialize(w, d) ==
    IF d.bus = None \/ ~Truthy(d.address) THEN Fail(w, d)
    ELSE LET w1 == I2C_write_byte_data(w, d.bus, MODE1, 0)
         IN  IF ~w1.ret THEN [w |-> w1, d |-> d]
             ELSE LET r == Fixed_PCA9685_set_all_pwm(w1, d, 0, 0)
                  IN  IF ~r.w.ret THEN r
                      ELSE [w |-> [r.w EXCEPT !.ret = TRUE],
                            d |-> [r.d EXCEPT !.is_initialized = TRUE]]

\* mutant: the off-tick rounded to the nearest integer
Mut_E2PCA9685_set_fan_speed_round(w, d, speed_level) ==
    IF ~d.is_initialized THEN Fail(w, d)
    ELSE LET speed == Max(0, Min(100, speed_level))
             on    == 0
             off   == on + ((4095 * speed + 50) \div 100)
         IN  E2PCA9685_set_pwm(w, d, 0, on, off)

\* int(0xFFF * speed_level / 100): true division, then truncation
E2PCA9685_set_fan_speed(w, d, speed_level) ==
    IF ~d.is_initialized THEN Fail(w, d)
    ELSE LET speed == Max(0, Min(100, speed_level))
             on    == 0
             off   == on + ((4095 * speed) \div 100)
         IN  E2PCA9685_set_pwm(w, d, 0, on, off)

----------------------------------------------------------------------------
(* Probing: detect() of every device class                                 *)

\* the display pool listed from its far end
Mut_HT16K33_ADDRESSES_descending == <<115, 114, 113, 112>>

HT16K33_ADDRESSES == <<112, 113, 114, 115>>
E3_ADDRESSES == <<28, 29, 30, 31>>
S1_ADDRESSES == <<116, 117, 118, 119>>

\* for addr in POSSIBLE_ADDRESSES: select, read one byte, keep the first that answers
RECURSIVE ScanPool(_, _, _, _)
ScanPool(w, d, pool, i) ==
    IF i > Len(pool) THEN Fail(w, d)
    ELSE LET w1 == I2C_set_address(w, d.bus, pool[i])
         IN  IF ~w1.ret THEN ScanPool(w1, d, pool, i + 1)
             ELSE LET w2 == I2C_read_byte(w1, d.bus)
                  IN  IF w2.ret THEN [w |-> w2, d |-> [d EXCEPT !.address = pool[i]]]
                      ELSE ScanPool(w2, d, pool, i + 1)

\* the same loop with read_byte_data(MODE1) as the presence read
RECURSIVE PCA9685_ScanPool(_, _, _, _)
PCA9685_ScanPool(w, d, pool, i) ==
    IF i > Len(pool) THEN Fail(w, d)
    ELSE LET w1 == I2C_set_address(w, d.bus, pool[i])
         IN  IF ~w1.ret THEN PCA9685_ScanPool(w1, d, pool, i + 1)
             ELSE LET w2 == I2C_read_byte_data(w1, d.bus, MODE1)
                  IN  IF w2.ret THEN [w |-> w2, d |-> [d EXCEPT !.address = pool[i]]]
                      ELSE PCA9685_ScanPool(w2, d, pool, i + 1)

\* if self.address: select it, read one byte, the read decides
ProbeKnown(w, d) ==
    LET w1 == I2C_set_address(w, d.bus, d.address)
    IN  IF ~w1.ret THEN Fail(w1, d) ELSE [w |-> I2C_read_byte(w1, d.bus), d |-> d]

PCA9685_detect(w, d) ==
    IF d.bus = None THEN Fail(w, d)
    ELSE IF Truthy(d.address)
         THEN LET w1 == I2C_set_address(w, d.bus, d.address)
              IN  IF ~w1.ret THEN Fail(w1, d)
                  ELSE [w |-> I2C_read_byte_data(w1, d.bus, MODE1), d |-> d]
         ELSE PCA9685_ScanPool(w, d, PCA9685_ADDRESSES, 1)

\* E2PCA9685.detect that falls back on the first candidate when none answers
Mut_E2PCA9685_detect_default(w, d) ==
    IF d.bus = None THEN Fail(w, d)
    ELSE IF Truthy(d.address) THEN ProbeKnown(w, d)
    ELSE LET r == ScanPool(w, d, E2_ADDRESSES, 1)
         IN  IF r.w.ret THEN r
             ELSE [w |-> [r.w EXCEPT !.ret = TRUE], d |-> [d EXCEPT !.address = E2_ADDRESSES[1]]]

E2PCA9685_detect(w, d) ==
    IF d.bus = None THEN Fail(w, d)
    ELSE IF Truthy(d.address) THEN ProbeKnown(w, d)
    ELSE ScanPool(w, d, E2_ADDRESSES, 1)

Fixed_PCA9685_detect(w, d) ==
    IF d.bus = None THEN Fail(w, d)
    ELSE IF Truthy(d.address) THEN ProbeKnown(w, d)
    ELSE ScanPool(w, d, PCA9685_ADDRESSES, 1)

\* HT16K33.detect that scans the pool even when an address is known
Mut_HT16K33_detect_ignores_known(w, d) ==
    IF d.bus = None THEN Fail(w, d)
    ELSE ScanPool(w, d, HT16K33_ADDRESSES, 1)

HT16K33_detect(w, d) ==
    IF d.bus = None THEN Fail(w, d)
    ELSE IF Truthy(d.address) THEN ProbeKnown(w, d)
    ELSE ScanPool(w, d, HT16K33_ADDRESSES, 1)

Fixed_HT16K33_detect(w, d) ==
    IF d.bus = None THEN Fail(w, d)
    ELSE IF Truthy(d.address) THEN ProbeKnown(w, d)
    ELSE ScanPool(w, d, HT16K33_ADDRESSES, 1)

\* E3Door.detect that walks the pool from its far end
Mut_E3Door_detect_reversed(w, d) ==
    IF d.bus = None THEN Fail(w, d)
    ELSE IF Truthy(d.address) THEN ProbeKnown(w, d)
    ELSE ScanPool(w, d, <<31, 30, 29, 28>>, 1)

E3Door_detect(w, d) ==
    IF d.bus = None THEN Fail(w, d)
    ELSE IF Truthy(d.address) THEN ProbeKnown(w, d)
    ELSE ScanPool(w, d, E3_ADDRESSES, 1)

S1KeyPad_detect(w, d) ==
    IF d.bus = None THEN Fail(w, d)
    ELSE IF Truthy(d.address) THEN ProbeKnown(w, d)
    ELSE ScanPool(w, d, S1_ADDRESSES, 1)

----------------------------------------------------------------------------
(* Display / keypad codecs: HT16K33 (i2c_lib and fixed_manager), S1KeyPad  *)

CMD_STANDBY_MODE_DISABLE == 33
CMD_DISPLAY_ENABLE == 129
CMD_ROW_OUTPUT == 160
CMD_KEY_DATA_START == 64
KEY_KS0 == 64
KEY_REG_NUM == 6

\* TUBE_CHARS: character -> <<reg1, reg2>>
TUBE_CHARS ==
    [c \in {"0", "1", "2", "3", "4", "5", "6", "7", "8", "9",
            "A", "B", "C", "D", "E", "F", "-", "_"} |->
        CASE c = "0" -> <<248, 1>>
          [] c = "1" -> <<48, 0>>
          [] c = "2" -> <<216, 2>>
          [] c = "3" -> <<120, 2>>
          [] c = "4" -> <<48, 3>>
          [] c = "5" -> <<104, 3>>
          [] c = "6" -> <<232, 3>>
          [] c = "7" -> <<56, 0>>
          [] c = "8" -> <<248, 3>>
          [] c = "9" -> <<120, 3>>
          [] c = "A" -> <<184, 3>>
          [] c = "B" -> <<224, 3>>
          [] c = "C" -> <<200, 1>>
          [] c = "D" -> <<240, 2>>
          [] c = "E" -> <<200, 3>>
          [] c = "F" -> <<136, 3>>
          [] c = "-" -> <<0, 2>>
          [] c = "_" -> <<0, 0>>]

\* range(0x02, 0x0A), each written with 0
ClearWrites == [i \in 1 .. 8 |-> <<1 + i, 0>>]

HT16K33_clear(w, d) ==
    IF ~d.is_initialized THEN Fail(w, d)
    ELSE [w |-> AndWrites(w, d.bus, ClearWrites), d |-> d]

Fixed_HT16K33_clear(w, d) == [w |-> AndWrites(w, d.bus, ClearWrites), d |-> d]

\* the result of clear() is dropped, and it runs before is_initialized is set
HT16K33_initialize(w, d) ==
    IF d.bus = None \/ ~Truthy(d.address) THEN Fail(w, d)
    ELSE LET w1 == I2C_write_byte(w, d.bus, CMD_STANDBY_MODE_DISABLE)
         IN  IF ~w1.ret THEN [w |-> w1, d |-> d]
             ELSE LET w2 == I2C_write_byte(w1, d.bus, CMD_ROW_OUTPUT)
                  IN  IF ~w2.ret THEN [w |-> w2, d |-> d]
                      ELSE LET r  == HT16K33_clear(w2, d)
                               w3 == I2C_write_byte(r.w, d.bus, CMD_DISPLAY_ENABLE)
                           IN  IF ~w3.ret THEN [w |-> w3, d |-> d]
                               ELSE [w |-> [w3 EXCEPT !.ret = TRUE],
                                     d |-> [d EXCEPT !.is_initialized = TRUE]]

Fixed_HT16K33_initialize(w, d) ==
    IF d.bus = None \/ ~Truthy(d.address) THEN Fail(w, d)
    ELSE LET w1 == I2C_write_byte(w, d.bus, CMD_STANDBY_MODE_DISABLE)
         IN  IF ~w1.ret THEN [w |-> w1, d |-> d]
             ELSE LET w2 == I2C_write_byte(w1, d.bus, CMD_ROW_OUTPUT)
                  IN  IF ~w2.ret THEN [w |-> w2, d |-> d]
                      ELSE LET r == Fixed_HT16K33_clear(w2, d)
                           IN  IF ~r.w.ret THEN r
                               ELSE LET w3 == I2C_write_byte(r.w, d.bus, CMD_DISPLAY_ENABLE)
                                    IN  IF ~w3.ret THEN [w |-> w3, d |-> d]
                                        ELSE [w |-> [w3 EXCEPT !.ret = TRUE],
                                              d |-> [d EXCEPT !.is_initialized = TRUE]]

\* initialize that starts over from uninitialised
Mut_S1KeyPad_initialize_restarts(w, d) ==
    IF d.bus = None \/ ~Truthy(d.address) THEN Fail(w, d)
    ELSE LET d0 == [d EXCEPT !.is_initialized = FALSE]
             w1 == I2C_write_byte(w, d.bus, CMD_STANDBY_MODE_DISABLE)
         IN  IF ~w1.ret THEN [w |-> w1, d |-> d0]
             ELSE LET w2 == I2C_write_byte(w1, d.bus, CMD_ROW_OUTPUT)
                  IN  IF ~w2.ret THEN [w |-> w2, d |-> d0]
                      ELSE LET w3 == AndWrites(w2, d.bus, ClearWrites)
                           IN  IF ~w3.ret THEN [w |-> w3, d |-> d0]
                               ELSE LET w4 == I2C_write_byte(w3, d.bus, CMD_DISPLAY_ENABLE)
                                    IN  IF ~w4.ret THEN [w |-> w4, d |-> d0]
                                        ELSE [w |-> [w4 EXCEPT !.ret = TRUE],
                                              d |-> [d EXCEPT !.is_initialized = TRUE]]

S1KeyPad_initialize(w, d) ==
    IF d.bus = None \/ ~Truthy(d.address) THEN Fail(w, d)
    ELSE LET w1 == I2C_write_byte(w, d.bus, CMD_STANDBY_MODE_DISABLE)
         IN  IF ~w1.ret THEN [w |-> w1, d |-> d]
             ELSE LET w2 == I2C_write_byte(w1, d.bus, CMD_ROW_OUTPUT)
                  IN  IF ~w2.ret THEN [w |-> w2, d |-> d]
                      ELSE LET w3 == AndWrites(w2, d.bus, ClearWrites)
                           IN  IF ~w3.ret THEN [w |-> w3, d |-> d]
                               ELSE LET w4 == I2C_write_byte(w3, d.bus, CMD_DISPLAY_ENABLE)
                                    IN  IF ~w4.ret THEN [w |-> w4, d |-> d]
                                        ELSE [w |-> [w4 EXCEPT !.ret = TRUE],
                                              d |-> [d EXCEPT !.is_initialized = TRUE]]

\* display_char_left that shows an unknown character as a blank
Mut_HT16K33_display_char_left_blank(w, d, index, char) ==
    IF ~d.is_initialized THEN Fail(w, d)
    ELSE IF index < 0 \/ index > 3 THEN Fail(w, d)
    ELSE LET pat == IF char \in DOMAIN TUBE_CHARS THEN TUBE_CHARS[char] ELSE <<0, 0>>
         IN  [w |-> AndWrites(w, d.bus, << <<2 + index * 2, pat[1]>>,
                                           <<2 + index * 2 + 1, pat[2]>> >>),
              d |-> d]

HT16K33_display_char_left(w, d, index, char) ==
    IF ~d.is_initialized THEN Fail(w, d)
    ELSE IF index < 0 \/ index > 3 THEN Fail(w, d)
    ELSE IF char \notin DOMAIN TUBE_CHARS THEN Fail(w, d)
    ELSE LET reg_base == 2 + index * 2
         IN  [w |-> AndWrites(w, d.bus, << <<reg_base, TUBE_CHARS[char][1]>>,
                                           <<reg_base + 1, TUBE_CHARS[char][2]>> >>),
              d |-> d]

\* display_char_right that steps one register per slot instead of two
Mut_HT16K33_display_char_right_step(w, d, index, char) ==
    IF ~d.is_initialized THEN Fail(w, d)
    ELSE IF index < 0 \/ index > 3 THEN Fail(w, d)
    ELSE IF char \notin DOMAIN TUBE_CHARS THEN Fail(w, d)
    ELSE LET reg_base == 8 - index
         IN  [w |-> AndWrites(w, d.bus, << <<reg_base, TUBE_CHARS[char][1]>>,
                                           <<reg_base + 1, TUBE_CHARS[char][2]>> >>),
              d |-> d]

HT16K33_display_char_right(w, d, index, char) ==
    IF ~d.is_initialized THEN Fail(w, d)
    ELSE IF index < 0 \/ index > 3 THEN Fail(w, d)
    ELSE IF char \notin DOMAIN TUBE_CHARS THEN Fail(w, d)
    ELSE LET reg_base == 8 - index * 2
         IN  [w |-> AndWrites(w, d.bus, << <<reg_base, TUBE_CHARS[char][1]>>,
                                           <<reg_base + 1, TUBE_CHARS[char][2]>> >>),
              d |-> d]

Fixed_HT16K33_display_char_left(w, d, index, char) ==
    IF ~d.is_initialized THEN Fail(w, d)
    ELSE IF index < 0 \/ index > 3 THEN Fail(w, d)
    ELSE IF char \notin DOMAIN TUBE_CHARS THEN Fail(w, d)
    ELSE LET reg_base == 2 + index * 2
         IN  [w |-> AndWrites(w, d.bus, << <<reg_base, TUBE_CHARS[char][1]>>,
                                           <<reg_base + 1, TUBE_CHARS[char][2]>> >>),
              d |-> d]

Fixed_HT16K33_display_char_right(w, d, index, char) ==
    IF ~d.is_initialized THEN Fail(w, d)
    ELSE IF index < 0 \/ index > 3 THEN Fail(w, d)
    ELSE IF char \notin DOMAIN TUBE_CHARS THEN Fail(w, d)
    ELSE LET reg_base == 8 - index * 2
         IN  [w |-> AndWrites(w, d.bus, << <<reg_base, TUBE_CHARS[char][1]>>,
                                           <<reg_base + 1, TUBE_CHARS[char][2]>> >>),
              d |-> d]

\* text[:4]
\* display_string without text = text[:4]
Mut_Truncate4_whole(text) == text

\* text[:4]
Truncate4(text) == SubSeq(text, 1, Min(4, Len(text)))

\* reversed(text)
Reversed(text) == [i \in 1 .. Len(text) |-> text[Len(text) + 1 - i]]

\* for i, char in enumerate(chars): the i-th character, i counted from 0
RECURSIVE HT16K33_display_loop(_, _, _, _, _)
HT16K33_display_loop(w, d, chars, i, align_right) ==
    IF i >= Len(chars) \/ i >= 4 THEN [w |-> [w EXCEPT !.ret = TRUE], d |-> d]
    ELSE LET r == IF align_right THEN HT16K33_display_char_right(w, d, i, chars[i + 1])
                  ELSE HT16K33_display_char_left(w, d, i, chars[i + 1])
         IN  IF ~r.w.ret THEN Fail(r.w, r.d)
             ELSE HT16K33_display_loop(r.w, r.d, chars, i + 1, align_right)

\* the result of clear() is dropped
HT16K33_display_string(w, d, text, align_right) ==
    IF ~d.is_initialized THEN Fail(w, d)
    ELSE LET r == HT16K33_clear(w, d)
             t == Truncate4(text)
         IN  HT16K33_display_loop(r.w, r.d, IF align_right THEN Reversed(t) ELSE t, 0, align_right)

\* as above, with: if char not in self.TUBE_CHARS: continue
RECURSIVE Fixed_HT16K33_display_loop(_, _, _, _, _)
Fixed_HT16K33_display_loop(w, d, chars, i, align_right) ==
    IF i >= Len(chars) \/ i >= 4 THEN [w |-> [w EXCEPT !.ret = TRUE], d |-> d]
    ELSE IF chars[i + 1] \notin DOMAIN TUBE_CHARS
         THEN Fixed_HT16K33_display_loop(w, d, chars, i + 1, align_right)
    ELSE LET r == IF align_right THEN Fixed_HT16K33_display_char_right(w, d, i, chars[i + 1])
                  ELSE Fixed_HT16K33_display_char_left(w, d, i, chars[i + 1])
         IN  IF ~r.w.ret THEN Fail(r.w, r.d)
             ELSE Fixed_HT16K33_display_loop(r.w, r.d, chars, i + 1, align_right)

Fixed_HT16K33_display_string(w, d, text, align_right) ==
    IF ~d.is_initialized THEN Fail(w, d)
    ELSE LET r == Fixed_HT16K33_clear(w, d)
             t == Truncate4(text)
         IN  Fixed_HT16K33_display_loop(r.w, r.d, IF align_right THEN Reversed(t) ELSE t,
                                        0, align_right)

\* values[index] & mask, mask a power of two
BitSet(v, mask) == (v \div mask) % 2 = 1

\* the if / elif chain of read_key: <<index into values, mask, key>> in test order
HT16K33_KEY_CHAIN ==
    << <<0, 1, 1>>, <<2, 1, 2>>, <<4, 1, 3>>, <<0, 2, 4>>, <<2, 2, 5>>, <<4, 2, 6>>,
       <<0, 4, 7>>, <<2, 4, 8>>, <<4, 4, 9>>, <<0, 8, 10>>, <<2, 8, 11>>, <<4, 8, 12>> >>

\* the chain of get_key testing one scan line after the other
Mut_S1_KEY_CHAIN_by_line ==
    << <<0, 1, 1>>, <<0, 2, 4>>, <<0, 4, 7>>, <<0, 8, 10>>, <<2, 1, 2>>, <<2, 2, 5>>,
       <<2, 4, 8>>, <<2, 8, 11>>, <<4, 1, 3>>, <<4, 2, 6>>, <<4, 4, 9>>, <<4, 8, 12>> >>

S1_KEY_CHAIN ==
    << <<0, 1, 1>>, <<2, 1, 2>>, <<4, 1, 3>>, <<0, 2, 4>>, <<2, 2, 5>>, <<4, 2, 6>>,
       <<0, 4, 7>>, <<2, 4, 8>>, <<4, 4, 9>>, <<0, 8, 10>>, <<2, 8, 11>>, <<4, 8, 12>> >>

\* marks a call that ended by raising IndexError instead of returning
IndexError == 0 - 3

\* the first test of the chain that holds decides; 0 when none does; a test
\* that indexes past the end of values raises
RECURSIVE KeyChain(_, _, _)
KeyChain(chain, values, i) ==
    IF i > Len(chain) THEN 0
    ELSE IF chain[i][1] + 1 > Len(values) THEN IndexError
    ELSE IF BitSet(values[chain[i][1] + 1], chain[i][2]) THEN chain[i][3]
    ELSE KeyChain(chain, values, i + 1)

I2C_read_block_data(w, b, reg, length) ==
    IF w.bus[b].fd <= 0
    THEN [w EXCEPT !.ret = FALSE, !.val = <<>>]
    ELSE LET w1 == Xfer(w, b, "write", <<reg>>)
         IN  IF ~w1.ret THEN [w1 EXCEPT !.val = <<>>]
             ELSE LET w2 == Xfer(w1, b, "read", <<length>>)
                  IN  IF ~w2.ret THEN [w2 EXCEPT !.val = <<>>] ELSE [w2 EXCEPT !.val = w.rx]

HT16K33_read_key(w, d) ==
    IF ~d.is_initialized THEN [w |-> [w EXCEPT !.ret = FALSE, !.val = 0], d |-> d]
    ELSE LET w1 == I2C_read_block_data(w, d.bus, CMD_KEY_DATA_START, 6)
         IN  IF ~w1.ret THEN [w |-> [w1 EXCEPT !.ret = FALSE, !.val = 0], d |-> d]
             ELSE LET key == KeyChain(HT16K33_KEY_CHAIN, w1.val, 1)
                  IN  [w |-> [w1 EXCEPT !.ret = (key # IndexError), !.val = key], d |-> d]

S1KeyPad_get_key(w, d) ==
    IF ~d.is_initialized THEN [w |-> [w EXCEPT !.ret = FALSE, !.val = 0], d |-> d]
    ELSE LET w1 == I2C_read_block_data(w, d.bus, KEY_KS0, KEY_REG_NUM)
         IN  IF ~w1.ret THEN [w |-> [w1 EXCEPT !.ret = FALSE, !.val = 0], d |-> d]
             ELSE LET key == KeyChain(S1_KEY_CHAIN, w1.val, 1)
                  IN  IF key = IndexError
                      THEN [w |-> [w1 EXCEPT !.ret = FALSE, !.val = 0], d |-> d]
                      ELSE [w |-> [w1 EXCEPT !.ret = TRUE, !.val = key], d |-> d]

----------------------------------------------------------------------------
(* Door / curtain codec: E3Door                                            *)

HR8833MTE_REG == 3

\* initialize that takes the device back to uninitialised when its write fails
Mut_E3Door_initialize_resets(w, d) ==
    IF d.bus = None \/ ~Truthy(d.address) THEN Fail(w, d)
    ELSE LET w1 == I2C_write_byte_data(w, d.bus, HR8833MTE_REG, 0)
         IN  IF ~w1.ret THEN [w |-> w1, d |-> [d EXCEPT !.is_initialized = FALSE]]
             ELSE [w |-> [w1 EXCEPT !.ret = TRUE], d |-> [d EXCEPT !.is_initialized = TRUE]]

E3Door_initialize(w, d) ==
    IF d.bus = None \/ ~Truthy(d.address) THEN Fail(w, d)
    ELSE LET w1 == I2C_write_byte_data(w, d.bus, HR8833MTE_REG, 0)
         IN  IF ~w1.ret THEN [w |-> w1, d |-> d]
             ELSE [w |-> [w1 EXCEPT !.ret = TRUE], d |-> [d EXCEPT !.is_initialized = TRUE]]

\* set_position that writes the position as given
Mut_E3Door_set_position_noclamp(w, d, position) ==
    IF ~d.is_initialized THEN Fail(w, d)
    ELSE [w |-> I2C_write_byte_data(w, d.bus, HR8833MTE_REG, position), d |-> d]

E3Door_set_position(w, d, position) ==
    IF ~d.is_initialized THEN Fail(w, d)
    ELSE [w |-> I2C_write_byte_data(w, d.bus, HR8833MTE_REG, Max(0, Min(100, position))),
          d |-> d]

----------------------------------------------------------------------------
(* A device object driven directly: the state after construction, and one  *)
(* action per method of the device classes                                 *)

PwmClasses == {"PCA9685", "E2PCA9685", "Fixed_PCA9685"}
DisplayClasses == {"HT16K33", "Fixed_HT16K33"}
KeyClasses == {"HT16K33", "S1KeyPad"}
AllClasses == PwmClasses \cup DisplayClasses \cup {"E3Door", "S1KeyPad"}

\* POSSIBLE_ADDRESSES of the class
Pool(cls) ==
    CASE cls \in {"PCA9685", "Fixed_PCA9685"} -> PCA9685_ADDRESSES
      [] cls = "E2PCA9685" -> E2_ADDRESSES
      [] cls \in {"HT16K33", "Fixed_HT16K33"} -> HT16K33_ADDRESSES
      [] cls = "E3Door" -> E3_ADDRESSES
      [] cls = "S1KeyPad" -> S1_ADDRESSES

Dev_detect(w, d) ==
    CASE d.cls = "PCA9685" -> PCA9685_detect(w, d)
      [] d.cls = "E2PCA9685" -> E2PCA9685_detect(w, d)
      [] d.cls = "Fixed_PCA9685" -> Fixed_PCA9685_detect(w, d)
      [] d.cls = "HT16K33" -> HT16K33_detect(w, d)
      [] d.cls = "Fixed_HT16K33" -> Fixed_HT16K33_detect(w, d)
      [] d.cls = "E3Door" -> E3Door_detect(w, d)
      [] d.cls = "S1KeyPad" -> S1KeyPad_detect(w, d)

Dev_initialize(w, d) ==
    CASE d.cls = "PCA9685" -> PCA9685_initialize(w, d)
      [] d.cls = "E2PCA9685" -> E2PCA9685_initialize(w, d)
      [] d.cls = "Fixed_PCA9685" -> Fixed_PCA9685_initialize(w, d)
      [] d.cls = "HT16K33" -> HT16K33_initialize(w, d)
      [] d.cls = "Fixed_HT16K33" -> Fixed_HT16K33_initialize(w, d)
      [] d.cls = "E3Door" -> E3Door_initialize(w, d)
      [] d.cls = "S1KeyPad" -> S1KeyPad_initialize(w, d)

Dev_set_pwm(w, d, channel, on, off) ==
    CASE d.cls = "PCA9685" -> PCA9685_set_pwm(w, d, channel, on, off)
      [] d.cls = "E2PCA9685" -> E2PCA9685_set_pwm(w, d, channel, on, off)
      [] d.cls = "Fixed_PCA9685" -> Fixed_PCA9685_set_pwm(w, d, channel, on, off)

Dev_set_all_pwm(w, d, on, off) ==
    CASE d.cls = "PCA9685" -> PCA9685_set_all_pwm(w, d, on, off)
      [] d.cls = "E2PCA9685" -> E2PCA9685_set_all_pwm(w, d, on, off)
      [] d.cls = "Fixed_PCA9685" -> Fixed_PCA9685_set_all_pwm(w, d, on, off)

Dev_display_string(w, d, text, align_right) ==
    CASE d.cls = "HT16K33" -> HT16K33_display_string(w, d, text, align_right)
      [] d.cls = "Fixed_HT16K33" -> Fixed_HT16K33_display_string(w, d, text, align_right)

Dev_display_char_left(w, d, index, char) ==
    CASE d.cls = "HT16K33" -> HT16K33_display_char_left(w, d, index, char)
      [] d.cls = "Fixed_HT16K33" -> Fixed_HT16K33_display_char_left(w, d, index, char)

Dev_display_char_right(w, d, index, char) ==
    CASE d.cls = "HT16K33" -> HT16K33_display_char_right(w, d, index, char)
      [] d.cls = "Fixed_HT16K33" -> Fixed_HT16K33_display_char_right(w, d, index, char)

Dev_clear(w, d) ==
    CASE d.cls = "HT16K33" -> HT16K33_clear(w, d)
      [] d.cls = "Fixed_HT16K33" -> Fixed_HT16K33_clear(w, d)

Dev_read_key(w, d) ==
    CASE d.cls = "HT16K33" -> HT16K33_read_key(w, d)
      [] d.cls = "S1KeyPad" -> S1KeyPad_get_key(w, d)

\* tick arguments: in range, at both ends, and out of range on both sides
TickSamples == {0 - TickSlack, 0, 15, 255, 256, 4095, 4095 + TickSlack}
ChannelSamples == (0 - 1) .. 16
SpeedSamples == (0 - TickSlack) .. (100 + TickSlack)

EnvVars == <<openable, answers>>
ManagerVars == <<buses, led_devices, tube_devices, led, tube, fan, door, keypad, i2c, mgr>>

\* an empty dict
NoDevices == <<>>

ManagersIdle ==
    /\ buses = <<>>
    /\ led_devices = NoDevices
    /\ tube_devices = NoDevices
    /\ led = NoDev /\ tube = NoDev /\ fan = NoDev /\ door = NoDev /\ keypad = NoDev
    /\ i2c = None
    /\ mgr = "None"

NoResult == [ok |-> FALSE, val |-> 0]

Call(op, args, pre) == [op |-> op, args |-> args, pre |-> pre]

\* the caller is between two calls
Idle == call.op = "idle"

NoCall == Call("idle", <<>>, NoDev)

\* the caller has looked at what the call returned and goes on
Continue ==
    /\ ~Idle
    /\ call' = NoCall
    /\ log' = <<>>
    /\ result' = NoResult
    /\ UNCHANGED <<EnvVars, ManagerVars, bus, dev>>

\* the handle of bus 0 open, as I2CBase("/dev/i2c-0") leaves it
OneOpenBus == [b \in BusNums |-> IF b = 0 THEN [fd |-> 3, address |-> None] ELSE NoHandle]

\* the device object after the call, and what the call did and returned
DevReturns(op, args, r) ==
    /\ dev' = r.d
    /\ bus' = r.w.bus
    /\ log' = r.w.log
    /\ result' = [ok |-> r.w.ret, val |-> r.w.val]
    /\ call' = Call(op, args, dev)
    /\ UNCHANGED <<EnvVars, ManagerVars>>

DevInitialize ==
    /\ Idle
    /\ \E g \in GlitchSets :
        DevReturns("initialize", <<>>, Dev_initialize(NewWorld(bus, g, <<>>), dev))

DevSetPwm ==
    /\ Idle
    /\ \E channel \in ChannelSamples, on \in TickSamples, off \in TickSamples, g \in GlitchSets :
        DevReturns("set_pwm", <<channel, on, off>>,
                   Dev_set_pwm(NewWorld(bus, g, <<>>), dev, channel, on, off))

DevSetAllPwm ==
    /\ Idle
    /\ \E on \in TickSamples, off \in TickSamples, g \in GlitchSets :
        DevReturns("set_all_pwm", <<on, off>>,
                   Dev_set_all_pwm(NewWorld(bus, g, <<>>), dev, on, off))

DevSetFanSpeed ==
    /\ Idle
    /\ dev.cls = "E2PCA9685"
    /\ \E speed_level \in SpeedSamples, g \in GlitchSets :
        DevReturns("set_fan_speed", <<speed_level>>,
                   E2PCA9685_set_fan_speed(NewWorld(bus, g, <<>>), dev, speed_level))

(* PWM devices with a resolved address on an open bus that has it selected *)
InitPwm ==
    /\ openable = {0}
    /\ \E cls \in PwmClasses : \E a \in {Pool(cls)[1], Pool(cls)[4]} :
          /\ answers = {<<0, a>>}
          /\ bus = [OneOpenBus EXCEPT ![0].address = a]
          /\ dev = NewDev(cls, 0, a)
    /\ ManagersIdle
    /\ call = NoCall
    /\ log = <<>>
    /\ result = NoResult

NextPwm == DevInitialize \/ DevSetPwm \/ DevSetAllPwm \/ DevSetFanSpeed \/ Continue

SpecPwm == InitPwm /\ [][NextPwm]_vars

(* Probing: a device of any class, with or without a known address, on a  *)
(* bus where any subset of its pool answers                                *)
DevDetect ==
    /\ Idle
    /\ \E g \in GlitchSets :
        DevReturns("detect", <<>>, Dev_detect(NewWorld(bus, g, <<>>), dev))

InitDetect ==
    /\ openable = {0}
    /\ \E cls \in AllClasses :
          /\ \E a \in {None} \cup {Pool(cls)[i] : i \in 1 .. 4} : dev = NewDev(cls, 0, a)
          /\ \E S \in SUBSET {Pool(cls)[i] : i \in 1 .. 4} : answers = {<<0, a>> : a \in S}
    /\ bus = OneOpenBus
    /\ ManagersIdle
    /\ call = NoCall
    /\ log = <<>>
    /\ result = NoResult

NextDetect == DevDetect \/ DevInitialize \/ Continue

SpecDetect == InitDetect /\ [][NextDetect]_vars

(* Displays: HT16K33 of i2c_lib and of fixed_manager                       *)

\* texts are drawn from a table digit, a table letter and a lowercase letter,
\* which the table does not hold
MaxTextLen == 5
TextChars == {"0", "F", "a"}
Texts == UNION {[1 .. n -> TextChars] : n \in 0 .. MaxTextLen}

DevDisplayString ==
    /\ Idle
    /\ \E text \in Texts, align_right \in BOOLEAN, g \in GlitchSets :
        DevReturns("display_string", [text |-> text, align_right |-> align_right],
                   Dev_display_string(NewWorld(bus, g, <<>>), dev, text, align_right))

\* every character of the table, and lowercase and other characters outside it
CharSamples == DOMAIN TUBE_CHARS \cup {"a", "f", "x"}

DevDisplayCharLeft ==
    /\ Idle
    /\ \E index \in (0 - 1) .. 4, char \in CharSamples, g \in GlitchSets :
        DevReturns("display_char_left", [index |-> index, char |-> char],
                   Dev_display_char_left(NewWorld(bus, g, <<>>), dev, index, char))

DevDisplayCharRight ==
    /\ Idle
    /\ \E index \in (0 - 1) .. 4, char \in CharSamples, g \in GlitchSets :
        DevReturns("display_char_right", [index |-> index, char |-> char],
                   Dev_display_char_right(NewWorld(bus, g, <<>>), dev, index, char))

DevClear ==
    /\ Idle
    /\ \E g \in GlitchSets :
        DevReturns("clear", <<>>, Dev_clear(NewWorld(bus, g, <<>>), dev))

InitDisplay ==
    /\ openable = {0}
    /\ \E cls \in DisplayClasses : \E a \in {Pool(cls)[1], Pool(cls)[2]} :
          /\ answers = {<<0, a>>}
          /\ bus = [OneOpenBus EXCEPT ![0].address = a]
          /\ dev = NewDev(cls, 0, a)
    /\ ManagersIdle
    /\ call = NoCall
    /\ log = <<>>
    /\ result = NoResult

NextDisplay ==
    \/ DevInitialize \/ DevClear \/ DevDisplayCharLeft \/ DevDisplayCharRight
    \/ DevDisplayString \/ Continue

SpecDisplay == InitDisplay /\ [][NextDisplay]_vars

(* Keypads: HT16K33.read_key and S1KeyPad.get_key                          *)

\* bytes of the scan lines: every pattern of the four column bits, and some
\* with bits above them
KeyByteSamples == (0 .. 15) \cup {16, 240, 241}
\* bytes 1, 3 and 5 of the block
FillerSamples == {0, 255}
KeyBlocks ==
    {<<b0, f, b2, f, b4, f>> : b0 \in KeyByteSamples, b2 \in KeyByteSamples,
                               b4 \in KeyByteSamples, f \in FillerSamples}

\* what a read of 6 bytes returns when it delivers fewer
ShortBlocks == {<<>>, <<0>>, <<1>>, <<0, 0, 0>>, <<0, 255, 8, 255>>, <<0, 0, 0, 0, 0>>}

DevReadKey ==
    /\ Idle
    /\ \E block \in KeyBlocks \cup ShortBlocks, g \in {{}, {1}, {2}} :
        DevReturns("read_key", block, Dev_read_key(NewWorld(bus, g, block), dev))

InitKey ==
    /\ openable = {0}
    /\ \E cls \in KeyClasses : \E a \in {Pool(cls)[1]} :
          /\ answers = {<<0, a>>}
          /\ bus = [OneOpenBus EXCEPT ![0].address = a]
          /\ dev = NewDev(cls, 0, a)
    /\ ManagersIdle
    /\ call = NoCall
    /\ log = <<>>
    /\ result = NoResult

NextKey == DevInitialize \/ DevReadKey \/ Continue

SpecKey == InitKey /\ [][NextKey]_vars

----------------------------------------------------------------------------
(* devices_manager.e1.E1DeviceManager                                      *)

\* a dict, in insertion order: a sequence of [key, value]
DictHas(dct, k) == \E i \in 1 .. Len(dct) : dct[i].key = k

\* a dict that keeps an older entry beside the new one
Mut_DictSet_append(dct, k, v) == Append(dct, [key |-> k, value |-> v])

\* dct[k] = v: a key already present keeps its place
DictSet(dct, k, v) ==
    IF DictHas(dct, k)
    THEN [i \in 1 .. Len(dct) |-> IF dct[i].key = k THEN [key |-> k, value |-> v] ELSE dct[i]]
    ELSE Append(dct, [key |-> k, value |-> v])

\* dct.get(k)
DictGet(dct, k) ==
    IF DictHas(dct, k) THEN (CHOOSE e \in {dct[i] : i \in 1 .. Len(dct)} : e.key = k).value
    ELSE NoDev

\* the attributes of the manager objects
MgrState ==
    [buses |-> buses, led_devices |-> led_devices, tube_devices |-> tube_devices,
     led |-> led, tube |-> tube, fan |-> fan, door |-> door, keypad |-> keypad, i2c |-> i2c]

NoManager ==
    [buses |-> <<>>, led_devices |-> NoDevices, tube_devices |-> NoDevices,
     led |-> NoDev, tube |-> NoDev, fan |-> NoDev, door |-> NoDev, keypad |-> NoDev,
     i2c |-> None]

MFail(w, m) == [w |-> [w EXCEPT !.ret = FALSE], m |-> m]

\* for bus_num in range(start_bus, end_bus + 1): keep the handles that open
RECURSIVE E1_scan_buses(_, _, _, _)
E1_scan_buses(w, m, bus_num, end_bus) ==
    IF bus_num > end_bus THEN [w |-> w, m |-> m]
    ELSE LET w1 == I2C_open([w EXCEPT !.bus[bus_num] = NoHandle], bus_num)
         IN  IF w1.ret
             THEN E1_scan_buses(w1, [m EXCEPT !.buses = Append(@, bus_num)], bus_num + 1, end_bus)
             ELSE E1_scan_buses(w1, m, bus_num + 1, end_bus)

\* for addr in PCA9685.POSSIBLE_ADDRESSES on one bus
RECURSIVE E1_scan_leds(_, _, _, _)
E1_scan_leds(w, m, b, i) ==
    IF i > Len(PCA9685_ADDRESSES) THEN [w |-> w, m |-> m]
    ELSE LET addr == PCA9685_ADDRESSES[i]
             r1   == PCA9685_detect(w, NewDev("PCA9685", b, addr))
         IN  IF ~r1.w.ret THEN E1_scan_leds(r1.w, m, b, i + 1)
             ELSE LET r2 == PCA9685_initialize(r1.w, r1.d)
                  IN  IF r2.w.ret
                      THEN E1_scan_leds(r2.w, [m EXCEPT !.led_devices = DictSet(@, addr, r2.d)],
                                        b, i + 1)
                      ELSE E1_scan_leds(r2.w, m, b, i + 1)

\* for addr in HT16K33.POSSIBLE_ADDRESSES on one bus
RECURSIVE E1_scan_tubes(_, _, _, _)
E1_scan_tubes(w, m, b, i) ==
    IF i > Len(HT16K33_ADDRESSES) THEN [w |-> w, m |-> m]
    ELSE LET addr == HT16K33_ADDRESSES[i]
             r1   == HT16K33_detect(w, NewDev("HT16K33", b, addr))
         IN  IF ~r1.w.ret THEN E1_scan_tubes(r1.w, m, b, i + 1)
             ELSE LET r2 == HT16K33_initialize(r1.w, r1.d)
                  IN  IF r2.w.ret
                      THEN E1_scan_tubes(r2.w, [m EXCEPT !.tube_devices = DictSet(@, addr, r2.d)],
                                         b, i + 1)
                      ELSE E1_scan_tubes(r2.w, m, b, i + 1)

\* for bus_num, bus in self.buses.items()
RECURSIVE E1_scan_devices_loop(_, _, _)
E1_scan_devices_loop(w, m, k) ==
    IF k > Len(m.buses) THEN [w |-> w, m |-> m]
    ELSE LET r1 == E1_scan_leds(w, m, m.buses[k], 1)
             r2 == E1_scan_tubes(r1.w, r1.m, m.buses[k], 1)
         IN  E1_scan_devices_loop(r2.w, r2.m, k + 1)

E1_scan_devices(w, m) ==
    IF m.buses = <<>> THEN [w |-> w, m |-> m]
    ELSE E1_scan_devices_loop(w, m, 1)

\* E1DeviceManager(scan_buses)
E1_init(w, scan_buses) ==
    IF scan_buses THEN E1_scan_buses(w, NoManager, 0, 5) ELSE [w |-> w, m |-> NoManager]

\* None when nothing is found; address None asks for the first device found
E1_get_led(m, address) ==
    IF address # None THEN DictGet(m.led_devices, address)
    ELSE IF m.led_devices # <<>> THEN m.led_devices[1].value ELSE NoDev

E1_get_tube(m, address) ==
    IF address # None THEN DictGet(m.tube_devices, address)
    ELSE IF m.tube_devices # <<>> THEN m.tube_devices[1].value ELSE NoDev

\* set_led_color scaling a component by 8
Mut_E1_set_led_color_half(w, m, red, green, blue, address) ==
    LET led0 == E1_get_led(m, address)
    IN  IF led0 = NoDev THEN MFail(w, m)
        ELSE LET red1   == Max(0, Min(255, red))
                 green1 == Max(0, Min(255, green))
                 blue1  == Max(0, Min(255, blue))
                 on     == 15
                 r1     == PCA9685_set_pwm(w, led0, 0, on, on + red1 * 8)
             IN  IF ~r1.w.ret THEN [w |-> r1.w, m |-> m]
                 ELSE LET r2 == PCA9685_set_pwm(r1.w, r1.d, 1, on, on + green1 * 8)
                      IN  IF ~r2.w.ret THEN [w |-> r2.w, m |-> m]
                          ELSE [w |-> PCA9685_set_pwm(r2.w, r2.d, 2, on, on + blue1 * 8).w,
                                m |-> m]

E1_set_led_color(w, m, red, green, blue, address) ==
    LET led0 == E1_get_led(m, address)
    IN  IF led0 = NoDev THEN MFail(w, m)
        ELSE LET red1   == Max(0, Min(255, red))
                 green1 == Max(0, Min(255, green))
                 blue1  == Max(0, Min(255, blue))
                 on     == 15
                 r1     == PCA9685_set_pwm(w, led0, 0, on, on + red1 * 16)
             IN  IF ~r1.w.ret THEN [w |-> r1.w, m |-> m]
                 ELSE LET r2 == PCA9685_set_pwm(r1.w, r1.d, 1, on, on + green1 * 16)
                      IN  IF ~r2.w.ret THEN [w |-> r2.w, m |-> m]
                          ELSE [w |-> PCA9685_set_pwm(r2.w, r2.d, 2, on, on + blue1 * 16).w,
                                m |-> m]

\* tube.initialize() runs on the device object the dict holds; its result is dropped
E1_display_tube(w, m, index, char, address) ==
    LET tube0 == E1_get_tube(m, address)
    IN  IF tube0 = NoDev THEN MFail(w, m)
        ELSE LET r1 == HT16K33_initialize(w, tube0)
                 r2 == HT16K33_display_char_left(r1.w, r1.d, index, char)
             IN  [w |-> r2.w,
                  m |-> [m EXCEPT !.tube_devices = DictSet(@, tube0.address, r2.d)]]

E1_display_tube_string(w, m, text, align_right, address) ==
    LET tube0 == E1_get_tube(m, address)
    IN  IF tube0 = NoDev THEN MFail(w, m)
        ELSE [w |-> HT16K33_display_string(w, tube0, text, align_right).w, m |-> m]

RECURSIVE E1_close_loop(_, _, _)
E1_close_loop(w, m, k) ==
    IF k > Len(m.buses) THEN w ELSE E1_close_loop(I2C_close(w, m.buses[k]), m, k + 1)

E1_close(w, m) ==
    [w |-> E1_close_loop(w, m, 1),
     m |-> [m EXCEPT !.buses = <<>>, !.led_devices = NoDevices, !.tube_devices = NoDevices]]

----------------------------------------------------------------------------
(* fixed_manager.E1DeviceManager                                           *)

FixedE1_scan_devices(w, m) ==
    IF m.i2c = None \/ w.bus[m.i2c].fd <= 0 THEN [w |-> w, m |-> m]
    ELSE LET r1 == Fixed_PCA9685_detect(w, NewDev("Fixed_PCA9685", m.i2c, None))
             r2 == IF r1.w.ret THEN Fixed_PCA9685_initialize(r1.w, r1.d) ELSE r1
             m1 == IF r2.w.ret THEN [m EXCEPT !.led = r2.d] ELSE m
             r3 == Fixed_HT16K33_detect(r2.w, NewDev("Fixed_HT16K33", m.i2c, None))
             r4 == IF r3.w.ret THEN Fixed_HT16K33_initialize(r3.w, r3.d) ELSE r3
         IN  [w |-> r4.w, m |-> IF r4.w.ret THEN [m1 EXCEPT !.tube = r4.d] ELSE m1]

\* self.i2c = I2CBase("/dev/i2c-5"); self.scan_devices()
FixedE1_init(w) == FixedE1_scan_devices(I2C_new(w, 5), [NoManager EXCEPT !.i2c = 5])

FixedE1_set_led_color(w, m, red, green, blue) ==
    IF m.led = NoDev THEN MFail(w, m)
    ELSE LET red1   == Max(0, Min(255, red))
             green1 == Max(0, Min(255, green))
             blue1  == Max(0, Min(255, blue))
             on     == 15
             r1     == Fixed_PCA9685_set_pwm(w, m.led, 0, on, on + red1 * 16)
         IN  IF ~r1.w.ret THEN [w |-> r1.w, m |-> m]
             ELSE LET r2 == Fixed_PCA9685_set_pwm(r1.w, r1.d, 1, on, on + green1 * 16)
                  IN  IF ~r2.w.ret THEN [w |-> r2.w, m |-> m]
                      ELSE [w |-> Fixed_PCA9685_set_pwm(r2.w, r2.d, 2, on, on + blue1 * 16).w,
                            m |-> m]

FixedE1_display_tube_string(w, m, text, align_right) ==
    IF m.tube = NoDev THEN MFail(w, m)
    ELSE [w |-> Fixed_HT16K33_display_string(w, m.tube, text, align_right).w, m |-> m]

\* if self.i2c: self.i2c.close()
FixedE1_close(w, m) ==
    [w |-> IF m.i2c # None THEN I2C_close(w, m.i2c) ELSE w,
     m |-> [m EXCEPT !.led = NoDev, !.tube = NoDev, !.i2c = None]]

----------------------------------------------------------------------------
(* devices_manager.e2.E2DeviceManager                                      *)

\* for i in range(6): the buses I2CBase(dev_name) could open, in order
RECURSIVE OpenAvailable(_, _, _)
OpenAvailable(w, i, available_buses) ==
    IF i >= 6 THEN [w |-> w, val |-> available_buses]
    ELSE LET w1 == I2C_new(w, i)
         IN  OpenAvailable(w1, i + 1,
                           IF w1.bus[i].fd > 0 THEN Append(available_buses, i)
                           ELSE available_buses)

\* the handles of available_buses[k ..] that nothing refers to any more
RECURSIVE DropRest(_, _, _, _)
DropRest(w, available_buses, k, kept) ==
    IF k > Len(available_buses) THEN w
    ELSE DropRest(IF available_buses[k] = kept THEN w ELSE I2C_del(w, available_buses[k]),
                  available_buses, k + 1, kept)

\* for bus_num, i2c in available_buses: the first bus on which detect() succeeds
RECURSIVE E2_search(_, _, _, _)
E2_search(w, m, available_buses, k) ==
    IF k > Len(available_buses) THEN [w |-> w, m |-> m]
    ELSE LET b  == available_buses[k]
             r1 == E2PCA9685_detect(w, NewDev("E2PCA9685", b, None))
         IN  IF r1.w.ret
             THEN LET r2 == E2PCA9685_initialize(r1.w, r1.d)
                  IN  [w |-> DropRest(r2.w, available_buses, k + 1, b),
                       m |-> [m EXCEPT !.i2c = b, !.fan = r2.d]]
             ELSE E2_search(I2C_close(r1.w, b), m, available_buses, k + 1)

\* a search that takes the buses from the highest number down
Mut_E2_scan_i2c_bus_descending(w, m) ==
    LET a == OpenAvailable(w, 0, <<>>)
    IN  IF a.val = <<>> THEN [w |-> a.w, m |-> m]
        ELSE E2_search(a.w, m, Reversed(a.val), 1)

E2_scan_i2c_bus(w, m) ==
    LET a == OpenAvailable(w, 0, <<>>)
    IN  IF a.val = <<>> THEN [w |-> a.w, m |-> m]
        ELSE E2_search(a.w, m, a.val, 1)

E2_scan_devices(w, m) ==
    IF m.fan # NoDev /\ m.fan.is_initialized THEN [w |-> w, m |-> m]
    ELSE IF m.i2c = None \/ w.bus[m.i2c].fd <= 0 THEN [w |-> w, m |-> m]
    ELSE LET r1 == E2PCA9685_detect(w, NewDev("E2PCA9685", m.i2c, None))
         IN  IF ~r1.w.ret THEN [w |-> r1.w, m |-> m]
             ELSE LET r2 == E2PCA9685_initialize(r1.w, r1.d)
                  IN  [w |-> r2.w, m |-> IF r2.w.ret THEN [m EXCEPT !.fan = r2.d] ELSE m]

E2_init(w) ==
    LET r == E2_scan_i2c_bus(w, NoManager)
    IN  IF r.m.i2c # None /\ r.w.bus[r.m.i2c].fd > 0 THEN E2_scan_devices(r.w, r.m) ELSE r

E2_set_fan_speed(w, m, speed_level) ==
    IF m.fan = NoDev THEN MFail(w, m)
    ELSE [w |-> E2PCA9685_set_fan_speed(w, m.fan, speed_level).w, m |-> m]

\* close that forgets the fan and the bus without closing the handle
Mut_E2_close_forgets(w, m) ==
    [w |-> w, m |-> [m EXCEPT !.fan = NoDev, !.i2c = None]]

E2_close(w, m) ==
    [w |-> IF m.i2c # None THEN I2C_close(w, m.i2c) ELSE w,
     m |-> [m EXCEPT !.fan = NoDev, !.i2c = None]]

----------------------------------------------------------------------------
(* devices_manager.e3.E3DeviceManager                                      *)

InSeq(x, q) == \E i \in 1 .. Len(q) : q[i] = x

\* the second loop: the buses other than 5, in order
RECURSIVE E3_search_others(_, _, _, _)
E3_search_others(w, m, available_buses, k) ==
    IF k > Len(available_buses) THEN [w |-> w, m |-> m, found |-> FALSE]
    ELSE LET b == available_buses[k]
         IN  IF b = 5 THEN E3_search_others(w, m, available_buses, k + 1)
             ELSE LET r1 == E3Door_detect(w, NewDev("E3Door", b, None))
                  IN  IF r1.w.ret
                      THEN LET r2 == E3Door_initialize(r1.w, r1.d)
                           IN  [w |-> DropRest(r2.w, available_buses, k + 1, b),
                                m |-> [m EXCEPT !.i2c = b, !.door = r2.d],
                                found |-> TRUE]
                      ELSE E3_search_others(I2C_close(r1.w, b), m, available_buses, k + 1)

\* a scan that keeps bus 5 for the fallback but does not probe it first
Mut_E3_scan_i2c_bus_skips_five(w, m) ==
    LET a == OpenAvailable(w, 0, <<>>)
    IN  IF a.val = <<>> THEN [w |-> a.w, m |-> m]
        ELSE LET m5 == IF InSeq(5, a.val) THEN [m EXCEPT !.i2c = 5] ELSE m
                 r3 == E3_search_others(a.w, m5, a.val, 1)
             IN  [w |-> r3.w, m |-> r3.m]

E3_scan_i2c_bus(w, m) ==
    LET a == OpenAvailable(w, 0, <<>>)
    IN  IF a.val = <<>> THEN [w |-> a.w, m |-> m]
        ELSE LET r5 == IF InSeq(5, a.val)
                       THEN E3Door_detect(a.w, NewDev("E3Door", 5, None))
                       ELSE Fail(a.w, NoDev)
                 m5 == IF InSeq(5, a.val) THEN [m EXCEPT !.i2c = 5] ELSE m
             IN  IF r5.w.ret
                 THEN LET r2 == E3Door_initialize(r5.w, r5.d)
                      IN  [w |-> DropRest(r2.w, a.val, 1, 5), m |-> [m5 EXCEPT !.door = r2.d]]
                 ELSE LET r3 == E3_search_others(r5.w, m5, a.val, 1)
                      IN  [w |-> r3.w, m |-> r3.m]

\* _use_fixed_address that does not select the address on the bus
Mut_E3_use_fixed_address_unselected(w, m) ==
    IF m.i2c = None \/ w.bus[m.i2c].fd <= 0 THEN [w |-> w, m |-> m]
    ELSE LET r == E3Door_initialize(w, NewDev("E3Door", m.i2c, 28))
         IN  [w |-> r.w, m |-> IF r.w.ret THEN [m EXCEPT !.door = r.d] ELSE m]

\* _use_fixed_address that keeps the door whatever initialize returned
Mut_E3_use_fixed_address_keeps(w, m) ==
    IF m.i2c = None \/ w.bus[m.i2c].fd <= 0 THEN [w |-> w, m |-> m]
    ELSE LET w1 == I2C_set_address(w, m.i2c, 28)
         IN  IF ~w1.ret THEN [w |-> w1, m |-> m]
             ELSE LET r == E3Door_initialize(w1, NewDev("E3Door", m.i2c, 28))
                  IN  [w |-> r.w, m |-> [m EXCEPT !.door = r.d]]

\* the fixed address 0x1C on the retained bus
E3_use_fixed_address(w, m) ==
    IF m.i2c = None \/ w.bus[m.i2c].fd <= 0 THEN [w |-> w, m |-> m]
    ELSE LET w1 == I2C_set_address(w, m.i2c, 28)
         IN  IF ~w1.ret THEN [w |-> w1, m |-> m]
             ELSE LET r == E3Door_initialize(w1, NewDev("E3Door", m.i2c, 28))
                  IN  [w |-> r.w, m |-> IF r.w.ret THEN [m EXCEPT !.door = r.d] ELSE m]

E3_init(w) ==
    LET r == E3_scan_i2c_bus(w, NoManager)
    IN  IF r.m.door = NoDev /\ r.m.i2c # None /\ r.w.bus[r.m.i2c].fd > 0
        THEN E3_use_fixed_address(r.w, r.m)
        ELSE r

E3_set_door_position(w, m, position) ==
    IF m.door = NoDev THEN MFail(w, m)
    ELSE [w |-> E3Door_set_position(w, m.door, position).w, m |-> m]

E3_close(w, m) ==
    [w |-> IF m.i2c # None THEN I2C_close(w, m.i2c) ELSE w,
     m |-> [m EXCEPT !.door = NoDev, !.i2c = None]]

----------------------------------------------------------------------------
(* devices_manager.s1.S1DeviceManager                                      *)

\* for i in range(100); a /dev/i2c-i beyond the buses of the model does not open
RECURSIVE S1_scan_i2c_bus(_, _, _)
S1_scan_i2c_bus(w, m, i) ==
    IF i >= 100 THEN MFail(w, m)
    ELSE IF i \notin BusNums THEN S1_scan_i2c_bus(w, m, i + 1)
    ELSE LET w1 == I2C_new(w, i)
         IN  IF w1.bus[i].fd <= 0 THEN S1_scan_i2c_bus(w1, m, i + 1)
             ELSE LET r1 == S1KeyPad_detect(w1, NewDev("S1KeyPad", i, None))
                      r2 == IF r1.w.ret THEN S1KeyPad_initialize(r1.w, r1.d) ELSE r1
                  IN  IF r2.w.ret
                      THEN [w |-> [r2.w EXCEPT !.ret = TRUE],
                            m |-> [m EXCEPT !.keypad = r2.d, !.i2c = i]]
                      ELSE S1_scan_i2c_bus(I2C_close(r2.w, i), m, i + 1)

S1_init(w) == S1_scan_i2c_bus(w, NoManager, 0)

S1_get_key(w, m) ==
    IF m.keypad = NoDev THEN [w |-> [w EXCEPT !.ret = FALSE, !.val = 0], m |-> m]
    ELSE [w |-> S1KeyPad_get_key(w, m.keypad).w, m |-> m]

S1_close(w, m) ==
    [w |-> IF m.i2c # None THEN I2C_close(w, m.i2c) ELSE w,
     m |-> [m EXCEPT !.keypad = NoDev, !.i2c = None]]

----------------------------------------------------------------------------
(* A manager object and its caller                                         *)

\* the manager object after the call, and what the call did and returned
MgrReturns(op, args, cls, r) ==
    /\ buses' = r.m.buses
    /\ led_devices' = r.m.led_devices
    /\ tube_devices' = r.m.tube_devices
    /\ led' = r.m.led /\ tube' = r.m.tube /\ fan' = r.m.fan
    /\ door' = r.m.door /\ keypad' = r.m.keypad /\ i2c' = r.m.i2c
    /\ mgr' = cls
    /\ bus' = r.w.bus
    /\ log' = r.w.log
    /\ result' = [ok |-> r.w.ret, val |-> r.w.val]
    /\ call' = Call(op, args, MgrState)
    /\ UNCHANGED <<EnvVars, dev>>

\* no bus handle exists yet
NoHandles == [b \in BusNums |-> NoHandle]

ColourSamples == {0 - TickSlack, 0, 128, 255, 255 + TickSlack}
Colours == ColourSamples \X {0, 255} \X {128, 255 + TickSlack}
LedAddressArgs == {None, 96, 97}
TubeAddressArgs == {None, 112, 113}
ManagerTexts ==
    {t \in Texts : Len(t) <= 1} \cup {<<"0", "F", "0", "F", "0">>, <<"F", "a", "0">>}

E1New ==
    /\ Idle /\ mgr = "None"
    /\ \E scan_buses \in BOOLEAN :
        MgrReturns("E1.__init__", <<scan_buses>>, "E1", E1_init(NewWorld(bus, {}, <<>>), scan_buses))

\* scan_buses() on a manager that holds no bus
E1ScanBuses ==
    /\ Idle /\ mgr = "E1" /\ buses = <<>>
    /\ MgrReturns("E1.scan_buses", <<>>, "E1", E1_scan_buses(NewWorld(bus, {}, <<>>), MgrState, 0, 5))

E1ScanDevices ==
    /\ Idle /\ mgr = "E1"
    /\ \E g \in GlitchSets :
        MgrReturns("E1.scan_devices", <<>>, "E1", E1_scan_devices(NewWorld(bus, g, <<>>), MgrState))

E1SetLedColor ==
    /\ Idle /\ mgr = "E1"
    /\ \E c \in Colours, address \in LedAddressArgs, g \in GlitchSets :
        MgrReturns("E1.set_led_color",
                   [red |-> c[1], green |-> c[2], blue |-> c[3], address |-> address], "E1",
                   E1_set_led_color(NewWorld(bus, g, <<>>), MgrState, c[1], c[2], c[3], address))

E1DisplayTube ==
    /\ Idle /\ mgr = "E1"
    /\ \E index \in {0, 3, 4}, char \in {"0", "a"}, address \in TubeAddressArgs, g \in GlitchSets :
        MgrReturns("E1.display_tube", [index |-> index, char |-> char, address |-> address], "E1",
                   E1_display_tube(NewWorld(bus, g, <<>>), MgrState, index, char, address))

E1DisplayTubeString ==
    /\ Idle /\ mgr = "E1"
    /\ \E text \in ManagerTexts, align_right \in BOOLEAN, address \in TubeAddressArgs,
          g \in GlitchSets :
        MgrReturns("E1.display_tube_string",
                   [text |-> text, align_right |-> align_right, address |-> address], "E1",
                   E1_display_tube_string(NewWorld(bus, g, <<>>), MgrState, text, align_right,
                                          address))

E1Close ==
    /\ Idle /\ mgr = "E1"
    /\ MgrReturns("E1.close", <<>>, "E1", E1_close(NewWorld(bus, {}, <<>>), MgrState))

FixedE1New ==
    /\ Idle /\ mgr = "None"
    /\ \E g \in GlitchSets :
        MgrReturns("FixedE1.__init__", <<>>, "FixedE1", FixedE1_init(NewWorld(bus, g, <<>>)))

FixedE1ScanDevices ==
    /\ Idle /\ mgr = "FixedE1"
    /\ \E g \in GlitchSets :
        MgrReturns("FixedE1.scan_devices", <<>>, "FixedE1",
                   FixedE1_scan_devices(NewWorld(bus, g, <<>>), MgrState))

FixedE1SetLedColor ==
    /\ Idle /\ mgr = "FixedE1"
    /\ \E c \in Colours, g \in GlitchSets :
        MgrReturns("FixedE1.set_led_color", [red |-> c[1], green |-> c[2], blue |-> c[3]],
                   "FixedE1",
                   FixedE1_set_led_color(NewWorld(bus, g, <<>>), MgrState, c[1], c[2], c[3]))

FixedE1DisplayTubeString ==
    /\ Idle /\ mgr = "FixedE1"
    /\ \E text \in ManagerTexts, align_right \in BOOLEAN, g \in GlitchSets :
        MgrReturns("FixedE1.display_tube_string", [text |-> text, align_right |-> align_right],
                   "FixedE1",
                   FixedE1_display_tube_string(NewWorld(bus, g, <<>>), MgrState, text, align_right))

FixedE1Close ==
    /\ Idle /\ mgr = "FixedE1"
    /\ MgrReturns("FixedE1.close", <<>>, "FixedE1", FixedE1_close(NewWorld(bus, {}, <<>>), MgrState))

(* An E1 board: which buses open and which addresses answer, before any   *)
(* manager is constructed                                                  *)
InitE1 ==
    /\ openable \in {{}, {5}, {1, 5}}
    /\ answers \in SUBSET {<<5, 96>>, <<5, 112>>, <<5, 113>>, <<1, 113>>}
    /\ bus = NoHandles
    /\ dev = NoDev
    /\ ManagersIdle
    /\ call = NoCall
    /\ log = <<>>
    /\ result = NoResult

NextE1 ==
    \/ E1New \/ E1ScanBuses \/ E1ScanDevices \/ E1SetLedColor \/ E1DisplayTube
    \/ E1DisplayTubeString \/ E1Close
    \/ FixedE1New \/ FixedE1ScanDevices \/ FixedE1SetLedColor \/ FixedE1DisplayTubeString
    \/ FixedE1Close
    \/ Continue

SpecE1 == InitE1 /\ [][NextE1]_vars

\* the interpreter collects a dropped handle at once, or not before the call returns
ManagerWorld(g, gc) == [NewWorld(bus, g, <<>>) EXCEPT !.gc = gc]

ManagerSpeeds == {0 - TickSlack, 0, 1, 50, 100, 100 + TickSlack}
PositionSamples == {0 - TickSlack, 0, 50, 100, 150}
ManagerKeyBlocks == {<<0, 0, 0, 0, 0, 0>>, <<240, 255, 12, 255, 10, 255>>, <<8, 0, 0, 0, 1, 0>>}

E2New ==
    /\ Idle /\ mgr = "None"
    /\ \E g \in GlitchSets, gc \in BOOLEAN :
        MgrReturns("E2.__init__", <<>>, "E2", E2_init(ManagerWorld(g, gc)))

E2ScanDevices ==
    /\ Idle /\ mgr = "E2"
    /\ \E g \in GlitchSets :
        MgrReturns("E2.scan_devices", <<>>, "E2",
                   E2_scan_devices(NewWorld(bus, g, <<>>), MgrState))

E2SetFanSpeed ==
    /\ Idle /\ mgr = "E2"
    /\ \E speed_level \in ManagerSpeeds, g \in GlitchSets :
        MgrReturns("E2.set_fan_speed", <<speed_level>>, "E2",
                   E2_set_fan_speed(NewWorld(bus, g, <<>>), MgrState, speed_level))

E2Close ==
    /\ Idle /\ mgr = "E2"
    /\ MgrReturns("E2.close", <<>>, "E2", E2_close(NewWorld(bus, {}, <<>>), MgrState))

E3New ==
    /\ Idle /\ mgr = "None"
    /\ \E g \in GlitchSets, gc \in BOOLEAN :
        MgrReturns("E3.__init__", <<>>, "E3", E3_init(ManagerWorld(g, gc)))

E3SetDoorPosition ==
    /\ Idle /\ mgr = "E3"
    /\ \E position \in PositionSamples, g \in GlitchSets :
        MgrReturns("E3.set_door_position", <<position>>, "E3",
                   E3_set_door_position(NewWorld(bus, g, <<>>), MgrState, position))

E3Close ==
    /\ Idle /\ mgr = "E3"
    /\ MgrReturns("E3.close", <<>>, "E3", E3_close(NewWorld(bus, {}, <<>>), MgrState))

S1New ==
    /\ Idle /\ mgr = "None"
    /\ \E g \in GlitchSets :
        MgrReturns("S1.__init__", <<>>, "S1", S1_init(NewWorld(bus, g, <<>>)))

S1GetKey ==
    /\ Idle /\ mgr = "S1"
    /\ \E block \in ManagerKeyBlocks, g \in {{}, {1}, {2}} :
        MgrReturns("S1.get_key", block, "S1", S1_get_key(NewWorld(bus, g, block), MgrState))

S1Close ==
    /\ Idle /\ mgr = "S1"
    /\ MgrReturns("S1.close", <<>>, "S1", S1_close(NewWorld(bus, {}, <<>>), MgrState))

(* An E2, E3 or S1 board, before its manager is constructed               *)
InitBoards ==
    /\ openable \in {{}, {5}, {2}, {2, 5}}
    /\ answers \in SUBSET {<<2, 100>>, <<5, 101>>, <<5, 28>>, <<2, 29>>, <<5, 116>>, <<2, 117>>}
    /\ bus = NoHandles
    /\ dev = NoDev
    /\ ManagersIdle
    /\ call = NoCall
    /\ log = <<>>
    /\ result = NoResult

NextBoards ==
    \/ E2New \/ E2ScanDevices \/ E2SetFanSpeed \/ E2Close
    \/ E3New \/ E3SetDoorPosition \/ E3Close
    \/ S1New \/ S1GetKey \/ S1Close
    \/ Continue

SpecBoards == InitBoards /\ [][NextBoards]_vars

----------------------------------------------------------------------------
(* Bus handles driven directly: two I2CBase objects, one per device file,  *)
(* and one action per method of I2CBase                                    *)

HandleBuses == {0, 1}
HandleAddresses == {96, 112}
HandleBytes == {0, 129}
HandleBlocks == {<<0, 0>>, <<1, 128>>}
HandleGlitches == {{}, {1}, {2}}

\* the handle object after the call, and what the call did and returned
HandleReturns(op, args, b, w) ==
    /\ bus' = w.bus
    /\ log' = w.log
    /\ result' = [ok |-> w.ret, val |-> w.val]
    /\ call' = Call(op, args, bus[b])
    /\ UNCHANGED <<EnvVars, ManagerVars, dev>>

HandleOpen ==
    /\ Idle
    /\ \E b \in HandleBuses :
        /\ bus[b].fd <= 0
        /\ HandleReturns("open", <<b>>, b, I2C_open(NewWorld(bus, {}, <<>>), b))

HandleClose ==
    /\ Idle
    /\ \E b \in HandleBuses :
        HandleReturns("close", <<b>>, b, I2C_close(NewWorld(bus, {}, <<>>), b))

HandleSetAddress ==
    /\ Idle
    /\ \E b \in HandleBuses, address \in HandleAddresses :
        HandleReturns("set_address", <<b, address>>, b,
                      I2C_set_address(NewWorld(bus, {}, <<>>), b, address))

HandleWriteByte ==
    /\ Idle
    /\ \E b \in HandleBuses, data \in HandleBytes, g \in HandleGlitches :
        HandleReturns("write_byte", <<b, data>>, b,
                      I2C_write_byte(NewWorld(bus, g, <<>>), b, data))

HandleReadByte ==
    /\ Idle
    /\ \E b \in HandleBuses, g \in HandleGlitches :
        HandleReturns("read_byte", <<b>>, b, I2C_read_byte(NewWorld(bus, g, <<>>), b))

HandleWriteByteData ==
    /\ Idle
    /\ \E b \in HandleBuses, reg \in HandleBytes, data \in HandleBytes, g \in HandleGlitches :
        HandleReturns("write_byte_data", <<b, reg, data>>, b,
                      I2C_write_byte_data(NewWorld(bus, g, <<>>), b, reg, data))

HandleReadByteData ==
    /\ Idle
    /\ \E b \in HandleBuses, reg \in HandleBytes, g \in HandleGlitches :
        HandleReturns("read_byte_data", <<b, reg>>, b,
                      I2C_read_byte_data(NewWorld(bus, g, <<>>), b, reg))

HandleWriteBlockData ==
    /\ Idle
    /\ \E b \in HandleBuses, reg \in HandleBytes, data \in HandleBlocks, g \in HandleGlitches :
        HandleReturns("write_block_data", <<b, reg, data>>, b,
                      I2C_write_block_data(NewWorld(bus, g, <<>>), b, reg, data))

HandleReadBlockData ==
    /\ Idle
    /\ \E b \in HandleBuses, reg \in HandleBytes, block \in HandleBlocks, g \in HandleGlitches :
        HandleReturns("read_block_data", <<b, reg, Len(block)>>, b,
                      I2C_read_block_data(NewWorld(bus, g, block), b, reg, Len(block)))

(* I2CBase() twice, nothing opened yet; device files and devices vary *)
InitHandle ==
    /\ openable \in {{0}, {0, 1}}
    /\ answers \in SUBSET {<<0, 96>>, <<1, 112>>}
    /\ bus = NoHandles
    /\ dev = NoDev
    /\ ManagersIdle
    /\ call = NoCall
    /\ log = <<>>
    /\ result = NoResult

NextHandle ==
    \/ HandleOpen \/ HandleClose \/ HandleSetAddress
    \/ HandleWriteByte \/ HandleReadByte
    \/ HandleWriteByteData \/ HandleReadByteData
    \/ HandleWriteBlockData \/ HandleReadBlockData
    \/ Continue

SpecHandle == InitHandle /\ [][NextHandle]_vars

(* A device object and the handle of its bus, each driven directly: the    *)
(* device is probed and initialised while its bus is closed and reopened   *)
(* under it                                                                *)

NextLife == DevDetect \/ DevInitialize \/ HandleClose \/ HandleOpen \/ Continue

SpecLife == InitDetect /\ [][NextLife]_vars

----------------------------------------------------------------------------
(* simple_manager: functions over a raw descriptor, and SimpleE1Manager.   *)
(* The descriptor os.open returns for /dev/i2c-b is the handle bus[b]; a   *)
(* slot <fd, addr> of the manager is a device record on bus b, and the     *)
(* empty slot <-1, 0> is NoDev.                                             *)

\* fcntl.ioctl(fd, I2C_SLAVE_FORCE, addr) and os.write(fd, bytes) in one try
Simple_i2c_write_cmd(w, b, addr, cmd) ==
    LET w1 == I2C_set_address(w, b, addr)
    IN  IF ~w1.ret THEN w1 ELSE Xfer(w1, b, "write", <<cmd>>)

Simple_i2c_write_reg(w, b, addr, reg, value) ==
    LET w1 == I2C_set_address(w, b, addr)
    IN  IF ~w1.ret THEN w1 ELSE Xfer(w1, b, "write", <<reg, value>>)

\* i2c_write_reg(...) and i2c_write_reg(...) and ...: stops at the first that fails
RECURSIVE Simple_write_regs(_, _, _, _)
Simple_write_regs(w, b, addr, regvals) ==
    IF regvals = <<>> THEN [w EXCEPT !.ret = TRUE]
    ELSE LET w1 == Simple_i2c_write_reg(w, b, addr, regvals[1][1], regvals[1][2])
         IN  IF ~w1.ret THEN w1 ELSE Simple_write_regs(w1, b, addr, Tail(regvals))

Simple_set_all_pwm(w, b, addr, on, off) ==
    Simple_write_regs(w, b, addr,
        << <<ALLLED_ON_L, LowByte(on)>>, <<ALLLED_ON_H, HighByte(on)>>,
           <<ALLLED_OFF_L, LowByte(off)>>, <<ALLLED_OFF_H, HighByte(off)>> >>)

Simple_ht16k33_clear(w, b, addr) ==
    LET w1 == Simple_i2c_write_cmd(w, b, addr, CMD_STANDBY_MODE_DISABLE)
    IN  IF ~w1.ret THEN w1
        ELSE LET w2 == Simple_i2c_write_cmd(w1, b, addr, CMD_ROW_OUTPUT)
             IN  IF ~w2.ret THEN w2
                 ELSE LET w3 == Simple_write_regs(w2, b, addr, ClearWrites)
                      IN  IF ~w3.ret THEN w3
                          ELSE Simple_i2c_write_cmd(w3, b, addr, CMD_DISPLAY_ENABLE)

Simple_display_char(w, b, addr, index, char) ==
    IF index < 0 \/ index > 3 \/ char \notin DOMAIN TUBE_CHARS THEN [w EXCEPT !.ret = FALSE]
    ELSE LET reg_base == 2 + index * 2
         IN  Simple_write_regs(w, b, addr, << <<reg_base, TUBE_CHARS[char][1]>>,
                                              <<reg_base + 1, TUBE_CHARS[char][2]>> >>)

\* for i, char in enumerate(chars): display_char(fd, addr, i, char) in both branches
RECURSIVE Simple_display_loop(_, _, _, _, _)
Simple_display_loop(w, b, addr, chars, i) ==
    IF i >= Len(chars) \/ i >= 4 THEN [w EXCEPT !.ret = TRUE]
    ELSE LET w1 == Simple_display_char(w, b, addr, i, chars[i + 1])
         IN  IF ~w1.ret THEN w1 ELSE Simple_display_loop(w1, b, addr, chars, i + 1)

Simple_display_string(w, b, addr, text, align_right) ==
    LET w1 == Simple_ht16k33_clear(w, b, addr)
        t  == Truncate4(text)
    IN  IF ~w1.ret THEN w1
        ELSE Simple_display_loop(w1, b, addr, IF align_right THEN Reversed(t) ELSE t, 0)

\* for addr in pool: ioctl and os.read(fd, 1) in a try; val is the first
\* address that answers
RECURSIVE Simple_probe(_, _, _, _)
Simple_probe(w, b, pool, k) ==
    IF k > Len(pool) THEN [w EXCEPT !.ret = FALSE]
    ELSE LET w1 == I2C_set_address(w, b, pool[k])
             w2 == IF w1.ret THEN Xfer(w1, b, "read", <<>>) ELSE w1
         IN  IF w2.ret THEN [w2 EXCEPT !.val = pool[k]] ELSE Simple_probe(w2, b, pool, k + 1)

\* for i in range(6): a descriptor is closed only while neither slot is filled
RECURSIVE Simple_scan_devices(_, _, _)
Simple_scan_devices(w, m, i) ==
    IF i >= 6 THEN [w |-> w, m |-> m]
    ELSE IF i \notin openable THEN Simple_scan_devices(w, m, i + 1)
    ELSE LET w0 == I2C_open([w EXCEPT !.bus[i] = NoHandle], i)
             p1 == Simple_probe(w0, i, PCA9685_ADDRESSES, 1)
             w1 == IF p1.ret
                   THEN Simple_set_all_pwm(Simple_i2c_write_reg(p1, i, p1.val, MODE1, 0),
                                           i, p1.val, 0, 0)
                   ELSE p1
             m1 == IF p1.ret THEN [m EXCEPT !.led = NewDev("Simple", i, p1.val)] ELSE m
             p2 == Simple_probe(w1, i, HT16K33_ADDRESSES, 1)
             w2 == IF p2.ret THEN Simple_ht16k33_clear(p2, i, p2.val) ELSE p2
             m2 == IF p2.ret THEN [m1 EXCEPT !.tube = NewDev("Simple", i, p2.val)] ELSE m1
         IN  IF m2.led # NoDev \/ m2.tube # NoDev
             THEN IF m2.led # NoDev /\ m2.tube # NoDev
                  THEN [w |-> w2, m |-> m2]
                  ELSE Simple_scan_devices(w2, m2, i + 1)
             ELSE Simple_scan_devices(I2C_close(w2, i), m2, i + 1)

Simple_display_tube_string(w, m, text, align_right) ==
    IF m.tube = NoDev \/ m.tube.address = 0 THEN MFail(w, m)
    ELSE [w |-> Simple_display_string(w, m.tube.bus, m.tube.address, text, align_right),
          m |-> m]

\* os.close(led_fd); os.close(tube_fd) unless it is the same descriptor;
\* closing a closed descriptor raises and is passed over
Simple_close(w, m) ==
    LET w1 == IF m.led # NoDev THEN I2C_close(w, m.led.bus) ELSE w
        w2 == IF m.tube # NoDev /\ (m.led = NoDev \/ m.tube.bus # m.led.bus)
              THEN I2C_close(w1, m.tube.bus)
              ELSE w1
    IN  [w |-> w2, m |-> [m EXCEPT !.led = NoDev, !.tube = NoDev]]

\* transfers of a scan that may fail: none, or one of the first three
SimpleGlitches == {{}, {1}, {2}, {3}}

SimpleNew ==
    /\ Idle /\ mgr = "None"
    /\ \E g \in SimpleGlitches :
        MgrReturns("Simple.__init__", <<>>, "Simple",
                   Simple_scan_devices(NewWorld(bus, g, <<>>), NoManager, 0))

SimpleDisplayTubeString ==
    /\ Idle /\ mgr = "Simple"
    /\ \E text \in ManagerTexts, align_right \in BOOLEAN, g \in GlitchSets :
        MgrReturns("Simple.display_tube_string", [text |-> text, align_right |-> align_right],
                   "Simple",
                   Simple_display_tube_string(NewWorld(bus, g, <<>>), MgrState, text, align_right))

SimpleClose ==
    /\ Idle /\ mgr = "Simple"
    /\ MgrReturns("Simple.close", <<>>, "Simple", Simple_close(NewWorld(bus, {}, <<>>), MgrState))

InitSimple ==
    /\ openable \in {{}, {1}, {1, 2}, {1, 2, 3}}
    /\ answers \in SUBSET {<<1, 96>>, <<2, 97>>, <<1, 112>>, <<2, 112>>, <<3, 113>>}
    /\ bus = NoHandles
    /\ dev = NoDev
    /\ ManagersIdle
    /\ call = NoCall
    /\ log = <<>>
    /\ result = NoResult

NextSimple == SimpleNew \/ SimpleDisplayTubeString \/ SimpleClose \/ Continue

SpecSimple == InitSimple /\ [][NextSimple]_vars

----------------------------------------------------------------------------
(* Reading the log                                                         *)

AllOk(l) == \A i \in 1 .. Len(l) : l[i].ok

\* the register writes (two bytes: register, value) among the events of l
RegWrites(l) == SelectSeq(l, LAMBDA e : e.op = "write" /\ Len(e.data) = 2)

IsPrefix(s, t) == Len(s) <= Len(t) /\ \A i \in 1 .. Len(s) : s[i] = t[i]

\* l is t cut off after its first failed write, or all of t when none fails
StopsAtFirstFailure(l, regvals) ==
    /\ Len(l) <= Len(regvals)
    /\ \A i \in 1 .. Len(l) : l[i].op = "write" /\ l[i].data = regvals[i]
    /\ \A i \in 1 .. (Len(l) - 1) : l[i].ok
    /\ Len(l) < Len(regvals) => (Len(l) > 0 /\ ~l[Len(l)].ok)

----------------------------------------------------------------------------
(* Claims                                                                  *)

C3_Clamp(x) == IF x < 0 THEN 0 ELSE IF x > 4095 THEN 4095 ELSE x

\* C3: set_pwm on a Ready PWM device with a channel in 0..15 whose writes all
\* succeed issues exactly four register writes, on-low, on-high, off-low,
\* off-high, to registers 6+4*channel .. 9+4*channel, carrying the low byte
\* and the bits 8..11 of on and off clamped into [0,4095].
C3_SetPwmFourWrites ==
    (call.op = "set_pwm" /\ call.pre.is_initialized /\ call.args[1] \in 0 .. 15 /\ AllOk(log)) =>
        LET channel == call.args[1]
            on  == C3_Clamp(call.args[2])
            off == C3_Clamp(call.args[3])
        IN  /\ Len(log) = 4
            /\ \A i \in 1 .. 4 : log[i].op = "write" /\ log[i].bus = dev.bus
            /\ log[1].data = <<6 + 4 * channel, on - 256 * (on \div 256)>>
            /\ log[2].data = <<7 + 4 * channel, on \div 256>>
            /\ log[3].data = <<8 + 4 * channel, off - 256 * (off \div 256)>>
            /\ log[4].data = <<9 + 4 * channel, off \div 256>>
            /\ result.ok

C3_Witness ==
    /\ call.op = "set_pwm" /\ call.pre.is_initialized /\ dev.cls = "E2PCA9685"
    /\ call.args = <<15, 4095 + TickSlack, 0 - TickSlack>>
    /\ Len(log) = 4 /\ AllOk(log)
    /\ log[4].data = <<69, 0>> /\ log[2].data = <<67, 15>>

C2_Clamp(speed) == IF speed < 0 THEN 0 ELSE IF speed > 100 THEN 100 ELSE speed

C2_Abs(x) == IF x < 0 THEN 0 - x ELSE x

\* the off-tick a completed channel write carried: off-low and off-high bytes
C2_LoggedOff == log[3].data[2] + 256 * log[4].data[2]

C2_FanCallCompleted ==
    call.op = "set_fan_speed" /\ call.pre.is_initialized /\ Len(log) = 4 /\ AllOk(log)

\* C2 (as claimed): set_fan_speed on a Ready device clamps speed to [0,100] and
\* writes channel 0 with on-tick 0 and off-tick the integer nearest to
\* 4095*speed/100.
C2_FanOffTickRounded ==
    C2_FanCallCompleted =>
        /\ log[1].data = <<6, 0>> /\ log[2].data = <<7, 0>>
        /\ log[3].data[1] = 8 /\ log[4].data[1] = 9
        /\ 2 * C2_Abs(100 * C2_LoggedOff - 4095 * C2_Clamp(call.args[1])) <= 100

\* C2 (amended): set_fan_speed on a Ready device clamps speed to [0,100] and
\* writes channel 0 (registers 6..9) with on-tick 0 and off-tick equal to
\* 4095*speed/100 truncated to an integer; the writes stop at the first that
\* fails; speed 0 yields off-tick 0 and speed 100 yields 4095.
C2_FanOffTickTruncated ==
    (call.op = "set_fan_speed" /\ call.pre.is_initialized) =>
        LET speed == C2_Clamp(call.args[1])
            off   == CHOOSE t \in 0 .. 4095 : 100 * t <= 4095 * speed /\ 4095 * speed < 100 * (t + 1)
        IN  /\ StopsAtFirstFailure(log, << <<6, 0>>, <<7, 0>>, <<8, off % 256>>, <<9, off \div 256>> >>)
            /\ result.ok = (Len(log) = 4 /\ AllOk(log))
            /\ (C2_FanCallCompleted /\ speed = 0) => C2_LoggedOff = 0
            /\ (C2_FanCallCompleted /\ speed = 100) => C2_LoggedOff = 4095

\* speed 1: 40.95 is written as 40
C2_Witness ==
    /\ C2_FanCallCompleted
    /\ call.args = <<1>>
    /\ C2_LoggedOff = 40

\* the number of clear() writes at the head of a display_string log: clear
\* stops at its first failed write, and after its eighth
C4_ClearLen ==
    IF Len(log) = 0 THEN 0
    ELSE CHOOSE c \in 1 .. Len(log) :
            /\ (c = 8 \/ ~log[c].ok \/ c = Len(log))
            /\ \A k \in 1 .. (c - 1) : k # 8 /\ log[k].ok

\* the writes of display_string that follow the clearing
C4_CharWrites == SubSeq(log, C4_ClearLen + 1, Len(log))

C4_Text4 == SubSeq(call.args.text, 1, IF Len(call.args.text) < 4 THEN Len(call.args.text) ELSE 4)

\* the character of the truncated text that belongs in the slot whose first
\* register is base: slots run 2, 4, 6, 8 from the left
C4_SlotChar(base) ==
    IF call.args.align_right
    THEN C4_Text4[Len(C4_Text4) - ((8 - base) \div 2)]
    ELSE C4_Text4[((base - 2) \div 2) + 1]

C4_SlotUsed(base) ==
    IF call.args.align_right
    THEN (8 - base) \div 2 < Len(C4_Text4)
    ELSE (base - 2) \div 2 < Len(C4_Text4)

\* C4: for every text and either alignment, display_string writes character
\* patterns to at most 4 digit slots (register pairs within 2..9), each the
\* pattern of one of the first 4 characters of the text in the slot its
\* position gives it; with align_right the last character of the truncated
\* text goes to the rightmost slot (registers 8/9), otherwise the first
\* character goes to the leftmost slot (registers 2/3).
C4_DisplayStringSlots ==
    call.op = "display_string" =>
        LET cw == C4_CharWrites
        IN  /\ \A k \in 1 .. Len(cw) :
                 /\ cw[k].op = "write" /\ Len(cw[k].data) = 2
                 /\ \E base \in {2, 4, 6, 8} :
                      /\ C4_SlotUsed(base)
                      /\ C4_SlotChar(base) \in DOMAIN TUBE_CHARS
                      /\ \/ cw[k].data = <<base, TUBE_CHARS[C4_SlotChar(base)][1]>>
                         \/ cw[k].data = <<base + 1, TUBE_CHARS[C4_SlotChar(base)][2]>>
            /\ Cardinality({(cw[k].data[1]) \div 2 : k \in 1 .. Len(cw)}) <= 4
            /\ (call.pre.is_initialized /\ Len(C4_Text4) > 0) =>
                 LET edge == IF call.args.align_right THEN 8 ELSE 2
                     char == IF call.args.align_right THEN C4_Text4[Len(C4_Text4)] ELSE C4_Text4[1]
                 IN  char \in DOMAIN TUBE_CHARS =>
                        /\ Len(cw) >= 1
                        /\ cw[1].data = <<edge, TUBE_CHARS[char][1]>>
                        /\ cw[1].ok => (Len(cw) >= 2 /\ cw[2].data = <<edge + 1, TUBE_CHARS[char][2]>>)

\* a five-character text, right-aligned: the fourth character lands in 8/9
C4_Witness ==
    /\ call.op = "display_string" /\ call.pre.is_initialized
    /\ call.args.text = <<"0", "0", "0", "F", "0">> /\ call.args.align_right
    /\ AllOk(log) /\ Len(log) = 16
    /\ log[9].data = <<8, 136>> /\ log[10].data = <<9, 3>>

\* the key a block stands for: the least 3*b + l + 1 over the set bits b of
\* the scan line l, which is byte 2*l of the block; 0 when none is set
C5_Pressed(block) ==
    {3 * b + l + 1 : <<l, b>> \in {p \in (0 .. 2) \X (0 .. 3) :
                                     (block[2 * p[1] + 1] \div (2 ^ p[2])) % 2 = 1}}

C5_Key(block) ==
    IF C5_Pressed(block) = {} THEN 0
    ELSE CHOOSE k \in C5_Pressed(block) : \A j \in C5_Pressed(block) : k <= j

\* C5: the key decode of read_key / get_key is a function of the 6-byte block
\* alone: the least 3*b + l + 1 over the set (line, column bit) positions,
\* 0 with success when none is set; bytes 1, 3, 5 and the upper four bits do
\* not count, and HT16K33.read_key and S1KeyPad.get_key agree on every block.
C5_KeyDecode ==
    (call.op = "read_key" /\ call.pre.is_initialized /\ Len(call.args) = 6) =>
        /\ result.ok = (Len(log) = 2 /\ AllOk(log))
        /\ result.ok => result.val = C5_Key(call.args)
        /\ ~result.ok => result.val = 0

\* two keys down at once, bits above the columns set: the lower key wins
C5_Witness ==
    /\ call.op = "read_key" /\ call.pre.is_initialized /\ dev.cls = "S1KeyPad"
    /\ call.args = <<240, 255, 12, 255, 10, 255>>
    /\ result.ok /\ result.val = 6

C6_Selects == SelectSeq(log, LAMBDA e : e.op = "select")
C6_Reads == SelectSeq(log, LAMBDA e : e.op = "read")

\* C6: detect() on a device constructed with a known address selects exactly
\* that address, once, and attempts exactly one presence read; the verdict
\* is that read's outcome, and the device's address is unchanged afterwards.
C6_DetectKnownAddress ==
    (call.op = "detect" /\ Truthy(call.pre.address) /\ bus[dev.bus].fd > 0) =>
        /\ Len(C6_Selects) = 1
        /\ log[1].op = "select" /\ log[1].addr = call.pre.address
        /\ \A k \in 1 .. Len(log) : log[k].addr = call.pre.address
        /\ IF dev.cls = "PCA9685"
           THEN /\ Len(log) \in {2, 3}
                /\ log[2].op = "write" /\ log[2].data = <<0>>
                /\ Len(log) = 3 <=> log[2].ok
                /\ Len(log) = 3 => log[3].op = "read"
           ELSE Len(log) = 2 /\ log[2].op = "read"
        /\ Len(C6_Reads) <= 1
        /\ result.ok = log[Len(log)].ok
        /\ dev.address = call.pre.address

\* the known address is the third of the pool and the first two answer as well
C6_Witness ==
    /\ call.op = "detect" /\ dev.cls = "HT16K33" /\ call.pre.address = 114
    /\ answers = {<<0, 112>>, <<0, 113>>, <<0, 114>>}
    /\ Len(log) = 2 /\ result.ok

\* the addresses selected, in order
C7_SelectedAddrs == [k \in 1 .. Len(C6_Selects) |-> C6_Selects[k].addr]

\* C7: detect() with no known address selects the candidates in the declared
\* pool order; the device's address becomes the first candidate whose read
\* succeeds and nothing is selected or read after it; if none answers,
\* detect returns False and the address stays unset.
C7_DetectScansPool ==
    (call.op = "detect" /\ ~Truthy(call.pre.address) /\ bus[dev.bus].fd > 0) =>
        /\ Len(log) > 0 /\ log[1].op = "select"
        /\ C7_SelectedAddrs = SubSeq(Pool(dev.cls), 1, Len(C6_Selects))
        /\ \A k \in 1 .. Len(log) :
              log[k].op = "read" => \A j \in 1 .. k : log[j].op = "select" => log[j].addr <= log[k].addr
        /\ \A k \in 1 .. (Len(log) - 1) : ~(log[k].op = "read" /\ log[k].ok)
        /\ result.ok = (log[Len(log)].op = "read" /\ log[Len(log)].ok)
        /\ result.ok => dev.address = log[Len(log)].addr
                        /\ dev.address = C7_SelectedAddrs[Len(C6_Selects)]
        /\ ~result.ok => Len(C6_Selects) = 4 /\ dev.address = call.pre.address

\* the second and the fourth candidate answer: the second is taken
C7_Witness ==
    /\ call.op = "detect" /\ dev.cls = "E3Door" /\ call.pre.address = None
    /\ answers = {<<0, 29>>, <<0, 31>>}
    /\ result.ok /\ dev.address = 29 /\ Len(log) = 4

\* every candidate is tried and none answers
C7_WitnessNotFound ==
    /\ call.op = "detect" /\ dev.cls = "S1KeyPad" /\ call.pre.address = None
    /\ ~result.ok /\ Len(log) = 8

C1_Byte(x) == IF x < 0 THEN 0 ELSE IF x > 255 THEN 255 ELSE x

\* the four register writes of one channel: on 15, off 15 + 16 * component
C1_Channel(ch, component) ==
    << <<6 + 4 * ch, 15>>, <<7 + 4 * ch, 0>>,
       <<8 + 4 * ch, (15 + 16 * C1_Byte(component)) % 256>>,
       <<9 + 4 * ch, (15 + 16 * C1_Byte(component)) \div 256>> >>

C1_Expected ==
    C1_Channel(0, call.args.red) \o C1_Channel(1, call.args.green) \o C1_Channel(2, call.args.blue)

\* the LED device the call addresses was retained by the manager
C1_LedFound ==
    \/ call.op = "E1.set_led_color" /\ E1_get_led(call.pre, call.args.address) # NoDev
    \/ call.op = "FixedE1.set_led_color" /\ call.pre.led # NoDev

\* C1: set_led_color of both E1 managers clamps each component to [0, 255]
\* and programs channels 0, 1, 2 with on-tick 15 and off-tick
\* 15 + 16 * component, stopping at the first failed write; it returns True
\* exactly when all three channel writes succeed.
C1_SetLedColor ==
    C1_LedFound =>
        /\ StopsAtFirstFailure(log, C1_Expected)
        /\ result.ok = (Len(log) = 12 /\ AllOk(log))

\* a red component above 255 on the devices_manager E1: channel 0 gets off-tick 4095
C1_Witness ==
    /\ call.op = "E1.set_led_color" /\ call.args.red > 255 /\ call.args.blue = 128
    /\ result.ok /\ Len(log) = 12
    /\ log[3].data = <<8, 255>> /\ log[4].data = <<9, 15>>
    /\ log[11].data = <<16, 15>> /\ log[12].data = <<17, 8>>

\* no candidate of the pool answers on any bus that opens
C8_NothingAnswers(pool) ==
    \A b \in openable : \A i \in 1 .. Len(pool) : <<b, pool[i]>> \notin answers

\* C8: an E2 or S1 manager constructed where at least one bus opens but no
\* candidate answers holds an empty device slot, and set_fan_speed / get_key
\* then return False / (False, 0) without any bus transfer.
C8_EmptySlot ==
    /\ (mgr = "E2" /\ openable # {} /\ C8_NothingAnswers(E2_ADDRESSES)) =>
          /\ fan = NoDev
          /\ call.op = "E2.set_fan_speed" => (~result.ok /\ log = <<>>)
    /\ (mgr = "S1" /\ openable # {} /\ C8_NothingAnswers(S1_ADDRESSES)) =>
          /\ keypad = NoDev
          /\ call.op = "S1.get_key" => (~result.ok /\ result.val = 0 /\ log = <<>>)

\* set_fan_speed on an E2 manager that found two buses and no fan
C8_Witness ==
    /\ mgr = "E2" /\ openable = {2, 5} /\ C8_NothingAnswers(E2_ADDRESSES)
    /\ call.op = "E2.set_fan_speed" /\ call.args = <<50>>
    /\ fan = NoDev /\ ~result.ok /\ log = <<>>

\* get_key on an S1 manager that found a bus and no keypad
C8_WitnessKeypad ==
    /\ mgr = "S1" /\ openable = {5} /\ C8_NothingAnswers(S1_ADDRESSES)
    /\ call.op = "S1.get_key" /\ keypad = NoDev /\ ~result.ok /\ log = <<>>

C9_Pre == 5 \in openable /\ C8_NothingAnswers(E3_ADDRESSES)

C9_Door == [cls |-> "E3Door", bus |-> 5, address |-> 28, is_initialized |-> TRUE]

\* C9: an E3 manager constructed where no candidate answers and bus 5 opens
\* retains bus 5, selects 0x1C on it and writes 0 to register 0x03; if that
\* write succeeds the door slot holds an initialised device at 0x1C, and
\* set_door_position(150) then writes 100 to register 0x03.
C9_FixedAddressFallback ==
    /\ (call.op = "E3.__init__" /\ C9_Pre) =>
          /\ i2c = 5 /\ bus[5].fd > 0
          /\ Len(log) >= 2
          /\ log[Len(log) - 1] = Event("select", 5, 28, <<>>, TRUE)
          /\ log[Len(log)].op = "write" /\ log[Len(log)].data = <<3, 0>>
          /\ log[Len(log)].bus = 5 /\ log[Len(log)].addr = 28
          /\ door = IF log[Len(log)].ok THEN C9_Door ELSE NoDev
    /\ (call.op = "E3.set_door_position" /\ C9_Pre /\ door # NoDev /\ call.args = <<150>>) =>
          /\ door = C9_Door
          /\ Len(log) = 1
          /\ log[1].op = "write" /\ log[1].data = <<3, 100>>
          /\ log[1].bus = 5 /\ log[1].addr = 28
          /\ result.ok = log[1].ok

\* bus 2 and bus 5 open, nothing answers, the fallback took and 150 was asked for
C9_Witness ==
    /\ call.op = "E3.set_door_position" /\ C9_Pre /\ openable = {2, 5}
    /\ call.args = <<150>> /\ door = C9_Door /\ i2c = 5 /\ bus[2].fd = FD_CLOSED
    /\ result.ok /\ log[1].data = <<3, 100>>

C9_WitnessInit ==
    /\ call.op = "E3.__init__" /\ C9_Pre /\ door = C9_Door /\ Len(log) > 10

\* every transfer of the scan went through, except reads where nothing answers
C10_ScanClean ==
    \A k \in 1 .. Len(log) :
        log[k].ok \/ (log[k].op = "read" /\ <<log[k].bus, log[k].addr>> \notin answers)

\* C10: when displays at 0x70 and 0x71 both answer on a bus, scan_devices
\* retains both in tube_devices, and a display_tube_string addressed to 0x71
\* never issues a write that is delivered to the device at 0x70.
C10_TubeIsolation ==
    /\ (call.op = "E1.scan_devices" /\ C10_ScanClean
          /\ \E k \in 1 .. Len(buses) :
                <<buses[k], 112>> \in answers /\ <<buses[k], 113>> \in answers) =>
          DictHas(tube_devices, 112) /\ DictHas(tube_devices, 113)
    /\ (call.op = "E1.display_tube_string" /\ call.args.address = 113
          /\ DictHas(tube_devices, 112) /\ DictHas(tube_devices, 113)) =>
          \A k \in 1 .. Len(log) :
              log[k].op = "write" =>
                  ~(log[k].addr = 112 /\ log[k].bus = DictGet(tube_devices, 112).bus)

\* both displays retained, a string shown on 0x71: its writes went out on bus 5
C10_Witness ==
    /\ call.op = "E1.display_tube_string" /\ call.args.address = 113
    /\ DictHas(tube_devices, 112) /\ DictHas(tube_devices, 113)
    /\ DictGet(tube_devices, 112).bus = 5 /\ DictGet(tube_devices, 113).bus = 5
    /\ call.args.text = <<"F">> /\ result.ok /\ Len(log) = 10 /\ AllOk(log)

\* the retained device a board-level call works on, NoDev when there is none
C11_Target ==
    CASE call.op = "E1.set_led_color" -> E1_get_led(call.pre, call.args.address)
      [] call.op \in {"E1.display_tube_string", "E1.display_tube"} ->
            E1_get_tube(call.pre, call.args.address)
      [] call.op = "FixedE1.set_led_color" -> call.pre.led
      [] call.op = "FixedE1.display_tube_string" -> call.pre.tube
      [] OTHER -> NoDev

\* C11: whenever set_led_color, display_tube_string or display_tube issues a
\* write on behalf of a retained device, the address selected on the bus
\* handle is that device's resolved address, so LED writes reach the LED
\* driver and display writes reach the display.
C11_WritesReachOwnDevice ==
    C11_Target # NoDev =>
        \A k \in 1 .. Len(log) :
            log[k].op = "write" => log[k].addr = C11_Target.address

C12_OperationalOps ==
    {"set_pwm", "set_all_pwm", "set_fan_speed", "clear", "display_char_left",
     "display_char_right", "display_string", "read_key", "set_position"}

\* C12: for every device class, an operational method called while the
\* device's is_initialized flag is False returns a failure result and issues
\* no bus transfer.
C12_UninitializedRejected ==
    (call.op \in C12_OperationalOps /\ ~call.pre.is_initialized) =>
        (~result.ok /\ log = <<>>)

C15_Clamp(position) == IF position < 0 THEN 0 ELSE IF position > 100 THEN 100 ELSE position

\* C15: for every integer position, set_position on a Ready door issues
\* exactly one write of clamp(position, 0, 100) to register 0x03, performs no
\* read, and returns exactly the outcome of that write.
C15_SetPositionOneWrite ==
    (call.op = "E3.set_door_position" /\ call.pre.door # NoDev
        /\ call.pre.door.is_initialized) =>
        /\ Len(log) = 1
        /\ log[1].op = "write"
        /\ log[1].data = <<3, C15_Clamp(call.args[1])>>
        /\ log[1].bus = call.pre.door.bus
        /\ result.ok = log[1].ok

\* a position below 0 on a door that was found by the scan, and the write fails
C15_Witness ==
    /\ call.op = "E3.set_door_position" /\ call.args[1] < 0
    /\ call.pre.door.is_initialized /\ call.pre.door.address = 29
    /\ Len(log) = 1 /\ log[1].data = <<3, 0>> /\ ~log[1].ok /\ ~result.ok

C13_Primitives ==
    {"set_address", "write_byte", "read_byte", "write_byte_data", "read_byte_data",
     "write_block_data", "read_block_data"}

C13_Closes(l) == Len(SelectSeq(l, LAMBDA e : e.op = "close"))

\* C13: close() is idempotent: on an open handle it releases the descriptor
\* exactly once and leaves the handle closed, on a closed handle it releases
\* nothing; on a handle that was never opened or is already closed,
\* set_address and every read/write primitive return their failure value
\* (False, (False, 0), (False, [])) with no I/O and the selected address
\* unchanged.
C13_ClosedHandle ==
    /\ call.op = "close" =>
          /\ bus[call.args[1]].fd = FD_CLOSED
          /\ bus[call.args[1]].address = call.pre.address
          /\ Len(log) = C13_Closes(log)
          /\ C13_Closes(log) = (IF call.pre.fd > 0 THEN 1 ELSE 0)
    /\ (call.op \in C13_Primitives /\ call.pre.fd <= 0) =>
          /\ ~result.ok
          /\ result.val = (IF call.op = "read_block_data" THEN <<>> ELSE 0)
          /\ log = <<>>
          /\ bus[call.args[1]] = call.pre

\* a second close of a handle that was opened, given an address and closed
C13_Witness ==
    /\ call.op = "close"
    /\ call.pre.fd = FD_CLOSED /\ call.pre.address # None
    /\ log = <<>>

\* a block read on a handle closed after use
C13_WitnessPrimitive ==
    /\ call.op = "read_block_data"
    /\ call.pre.fd = FD_CLOSED /\ call.pre.address # None
    /\ ~result.ok /\ result.val = <<>>

RECURSIVE C16_Expected(_, _, _)
C16_Expected(chars, i, right) ==
    IF i > Len(chars) THEN <<>>
    ELSE LET base == IF right THEN 8 - 2 * (i - 1) ELSE 2 + 2 * (i - 1)
             rest == C16_Expected(chars, i + 1, right)
         IN  IF chars[i] \in DOMAIN TUBE_CHARS
             THEN << <<base, TUBE_CHARS[chars[i]][1]>>,
                     <<base + 1, TUBE_CHARS[chars[i]][2]>> >> \o rest
             ELSE rest

\* C16: display_string passes over a character that is not in the segment
\* table: nothing is written for its slot, the remaining characters are still
\* written to their slots, and the call does not report failure on account
\* of it (with every transfer succeeding it returns True).
C16_UnknownCharSkipped ==
    (call.op = "display_string" /\ call.pre.is_initialized /\ AllOk(log)) =>
        LET chars == IF call.args.align_right THEN Reversed(C4_Text4) ELSE C4_Text4
            want  == C16_Expected(chars, 1, call.args.align_right)
        IN  /\ result.ok
            /\ Len(log) = 8 + Len(want)
            /\ \A k \in 1 .. Len(want) : log[8 + k].data = want[k]

C17_InitWrites == << <<0, 0>>, <<250, 0>>, <<251, 0>>, <<252, 0>>, <<253, 0>> >>

\* C17: for each PWM codec, initialize() writes 0 to the mode register 0x00
\* and then 0 to the four all-channel registers 0xFA..0xFD, stopping at the
\* first write that fails; it returns True, and the device is Ready, only if
\* all five writes were issued and succeeded.
C17_PwmInitialize ==
    (call.op = "initialize" /\ call.pre.cls \in PwmClasses) =>
        /\ StopsAtFirstFailure(log, C17_InitWrites)
        /\ (result.ok \/ (dev.is_initialized /\ ~call.pre.is_initialized)) =>
              (Len(log) = 5 /\ AllOk(log))

C18_InitWrites ==
    << <<33>>, <<160>> >> \o [k \in 1 .. 8 |-> <<k + 1, 0>>] \o << <<129>> >>

\* C18: for each display / keypad codec, initialize() issues wake 0x21,
\* row-output 0xA0, a zero write to each of the registers 0x02..0x09 and
\* display-enable 0x81, in that order, and aborts at the first transfer that
\* fails; it returns True, and the device is Ready, only if all eleven were
\* issued and succeeded.
C18_DisplayInitialize ==
    (call.op = "initialize" /\ call.pre.cls \in {"HT16K33", "Fixed_HT16K33", "S1KeyPad"}) =>
        /\ StopsAtFirstFailure(log, C18_InitWrites)
        /\ (result.ok \/ (dev.is_initialized /\ ~call.pre.is_initialized)) =>
              (Len(log) = 11 /\ AllOk(log))

\* C19: in every reachable state of every manager, a device slot that is not
\* empty holds a device whose is_initialized is True: a device whose probe
\* succeeded but whose initialize() failed is never retained.
C19_RetainedIsReady ==
    /\ \A d \in {led, tube, fan, door, keypad} : d # NoDev => d.is_initialized
    /\ \A k \in 1 .. Len(led_devices) : led_devices[k].value.is_initialized
    /\ \A k \in 1 .. Len(tube_devices) : tube_devices[k].value.is_initialized

C20_Range(q) == {q[i] : i \in 1 .. Len(q)}

C20_Keys(dct) == {dct[i].key : i \in 1 .. Len(dct)}

\* the events of kind op on bus b while address a was selected
C20_Events(op, b, a) ==
    SelectSeq(log, LAMBDA e : e.op = op /\ e.bus = b /\ e.addr = a)

\* address a answered the presence read on bus b and all n writes of detect()
\* and initialize() went through (PCA9685: the probe byte and MODE1;
\* HT16K33: 0x21, 0xA0, 0x81)
C20_AnsweredAndInitialized(b, a, n) ==
    /\ Len(C20_Events("read", b, a)) = 1 /\ AllOk(C20_Events("read", b, a))
    /\ Len(C20_Events("write", b, a)) = n /\ AllOk(C20_Events("write", b, a))

C20_Found(pool, n) ==
    {a \in C20_Range(pool) :
        \E b \in C20_Range(call.pre.buses) : C20_AnsweredAndInitialized(b, a, n)}

\* C20: scan_devices probes every candidate address of both families on every
\* enumerated bus and retains, keyed by address, every address that answers
\* and initialises; after any number of scans each map holds at most one
\* device per address, and its keys are the addresses that answered and
\* initialised on some bus (those of this scan added to those held before).
C20_ScanDevicesMaps ==
    /\ Cardinality(C20_Keys(led_devices)) = Len(led_devices)
    /\ Cardinality(C20_Keys(tube_devices)) = Len(tube_devices)
    /\ \A k \in 1 .. Len(led_devices) : led_devices[k].value.address = led_devices[k].key
    /\ \A k \in 1 .. Len(tube_devices) : tube_devices[k].value.address = tube_devices[k].key
    /\ call.op = "E1.scan_devices" =>
          /\ \A b \in C20_Range(call.pre.buses) :
                \A a \in C20_Range(PCA9685_ADDRESSES) \cup C20_Range(HT16K33_ADDRESSES) :
                    Len(C20_Events("select", b, a)) = 1
          /\ C20_Keys(led_devices) =
                C20_Keys(call.pre.led_devices) \cup C20_Found(PCA9685_ADDRESSES, 2)
          /\ C20_Keys(tube_devices) =
                C20_Keys(call.pre.tube_devices) \cup C20_Found(HT16K33_ADDRESSES, 3)

\* a second scan on a board where 0x71 answers on bus 1 and on bus 5: still
\* one entry for 0x71, beside the LED driver kept from the scan before
C20_Witness ==
    /\ call.op = "E1.scan_devices"
    /\ call.pre.buses = <<1, 5>>
    /\ C20_Keys(call.pre.tube_devices) = {113}
    /\ C20_AnsweredAndInitialized(1, 113, 3) /\ C20_AnsweredAndInitialized(5, 113, 3)
    /\ C20_Keys(tube_devices) = {113} /\ Len(tube_devices) = 1
    /\ C20_Keys(led_devices) = {96}

C21_Transfers ==
    {"write_byte", "read_byte", "write_byte_data", "read_byte_data",
     "write_block_data", "read_block_data"}

\* C21: every register read / write primitive of I2CBase fails without
\* performing I/O when the handle is open but no address has been selected
\* on it since it was opened.
C21_NoAddressNoTransfer ==
    (call.op \in C21_Transfers /\ call.pre.fd > 0 /\ call.pre.address = None) =>
        (~result.ok /\ log = <<>>)

\* the positions of the log at which a device is probed or written
C22_Probes == {k \in 1 .. Len(log) : log[k].op \in {"select", "read", "write"}}

C22_ProbedBuses == {log[k].bus : k \in C22_Probes}

\* C22: E2DeviceManager and S1DeviceManager probe the buses that open in
\* ascending bus-number order and stop at the first bus that matches: every
\* bus probed before it is closed before the next bus is probed, and no bus
\* after the winning one is probed.
C22_AscendingFirstMatch ==
    call.op \in {"E2.__init__", "S1.__init__"} =>
        /\ \A j, k \in C22_Probes : j < k => log[j].bus <= log[k].bus
        /\ \A j, k \in C22_Probes :
              (j < k /\ log[j].bus < log[k].bus) =>
                  \E c \in (j + 1) .. (k - 1) : log[c].op = "close" /\ log[c].bus = log[j].bus
        /\ i2c # None =>
              /\ i2c \in C22_ProbedBuses
              /\ \A b \in C22_ProbedBuses : b <= i2c
              /\ C22_ProbedBuses = {b \in openable : b <= i2c}
              /\ bus[i2c].fd > 0
        /\ i2c = None =>
              /\ C22_ProbedBuses = openable
              /\ \A b \in BusNums : bus[b].fd <= 0
        /\ call.op = "E2.__init__" =>
              (i2c # None <=> \E k \in C22_Probes : log[k].op = "read" /\ log[k].ok)
        /\ call.op = "S1.__init__" =>
              (i2c # None <=> (keypad # NoDev /\ keypad.is_initialized /\ keypad.bus = i2c))

\* buses 2 and 5 open and the fan answers on bus 5 only: bus 2 is probed and
\* closed, bus 5 is retained
C22_Witness ==
    /\ call.op = "E2.__init__" /\ openable = {2, 5}
    /\ i2c = 5 /\ bus[2].fd = FD_CLOSED /\ bus[5].fd > 0
    /\ C22_ProbedBuses = {2, 5}
    /\ fan # NoDev /\ fan.is_initialized

C23_OkReads == {k \in C22_Probes : log[k].op = "read" /\ log[k].ok}

C23_First(S) == CHOOSE k \in S : \A j \in S : k <= j

\* a door answers and is read on the lower-numbered bus b and on bus 5
C23_AnswersOnBoth(b) ==
    /\ b < 5 /\ {b, 5} \subseteq openable
    /\ \E i, j \in 1 .. Len(E3_ADDRESSES) :
          <<b, E3_ADDRESSES[i]>> \in answers /\ <<5, E3_ADDRESSES[j]>> \in answers

\* C23 as claimed: E3DeviceManager probes the buses that open in ascending
\* bus-number order and stops at the first success, so when a door answers on
\* a lower-numbered bus and on bus 5 the lower-numbered bus is retained.
C23_LowerBusRetained ==
    call.op = "E3.__init__" =>
        /\ \A j, k \in C22_Probes : j < k => log[j].bus <= log[k].bus
        /\ \A b \in BusNums : (C23_AnswersOnBoth(b) /\ AllOk(log)) => i2c = b

\* C23 amended: E3DeviceManager probes bus 5 first when it opens, and only
\* then the other buses in ascending order, stopping at the first bus on
\* which a candidate answers; when a door answers on a lower-numbered bus and
\* on bus 5, bus 5 is retained and the lower-numbered bus is never probed.
\* Bus 5 is touched after another bus only by the fixed-address fallback.
C23_BusFiveFirst ==
    call.op = "E3.__init__" =>
        /\ 5 \in openable => (C22_Probes # {} /\ log[C23_First(C22_Probes)].bus = 5)
        /\ \A j, k \in C22_Probes :
              (j < k /\ log[j].bus # 5 /\ log[k].bus # 5) => log[j].bus <= log[k].bus
        /\ \A j, k \in C22_Probes :
              (j < k /\ log[j].bus # 5 /\ log[k].bus = 5) => C23_OkReads = {}
        /\ C23_OkReads # {} =>
              LET f == C23_First(C23_OkReads)
              IN  /\ i2c = log[f].bus
                  /\ door # NoDev /\ door.bus = i2c /\ door.address = log[f].addr
                  /\ \A k \in C22_Probes : k > f => log[k].bus = i2c
        /\ \A b \in BusNums :
              (C23_AnswersOnBoth(b) /\ AllOk(log)) => (i2c = 5 /\ b \notin C22_ProbedBuses)

\* buses 2 and 5 open, a door answers at 0x1D on bus 2 and at 0x1C on bus 5
C23_Witness ==
    /\ call.op = "E3.__init__" /\ openable = {2, 5}
    /\ {<<2, 29>>, <<5, 28>>} \subseteq answers
    /\ AllOk(log)
    /\ i2c = 5 /\ door.bus = 5 /\ door.address = 28 /\ door.is_initialized
    /\ C22_ProbedBuses = {5}

\* C24 as claimed: whenever an initialize() call returns failure the device
\* is uninitialised afterwards, also when an earlier initialize() on the same
\* device had succeeded.
C24_FailedInitUninitialized ==
    (call.op = "initialize" /\ ~result.ok) => ~dev.is_initialized

\* C24 amended: an initialize() call that returns failure leaves
\* is_initialized as it was before the call (a device that was never
\* initialised stays uninitialised, a device an earlier initialize() made
\* Ready stays Ready); a call that returns success leaves it True.
C24_FailedInitKeepsState ==
    call.op = "initialize" =>
        /\ ~result.ok => dev.is_initialized = call.pre.is_initialized
        /\ result.ok => dev.is_initialized
        /\ dev = [call.pre EXCEPT !.is_initialized = dev.is_initialized]

\* a door that was Ready, and a second initialize() whose write fails
C24_Witness ==
    /\ call.op = "initialize" /\ call.pre.cls = "E3Door" /\ call.pre.is_initialized
    /\ Len(log) = 1 /\ ~log[1].ok
    /\ ~result.ok /\ dev.is_initialized

C25_Slots == <<dev, led, tube, fan, door, keypad>>

C26_InvalidChannelRejected ==
    (call.op = "set_pwm" /\ call.pre.is_initialized /\ call.args[1] \notin 0 .. 15) =>
        (~result.ok /\ log = <<>> /\ dev = call.pre)

\* channel 16 on a Ready fan driver, ticks in range, no transfer failing
C26_Witness ==
    /\ call.op = "set_pwm" /\ call.pre.is_initialized /\ call.pre.cls = "E2PCA9685"
    /\ call.args = <<16, 0, 4095>>
    /\ ~result.ok /\ log = <<>>

C27_CharOps == {"display_char_left", "display_char_right"}

C27_Table ==
    {"0", "1", "2", "3", "4", "5", "6", "7", "8", "9", "A", "B", "C", "D", "E", "F", "-", "_"}

C27_Valid == call.args.index \in 0 .. 3 /\ call.args.char \in C27_Table

\* the slot base of the call: 0x02 + 2*index from the left, 0x08 - 2*index
\* from the right
C27_Base ==
    IF call.op = "display_char_left" THEN 2 + 2 * call.args.index ELSE 8 - 2 * call.args.index

C27_Pair ==
    << <<C27_Base, TUBE_CHARS[call.args.char][1]>>,
       <<C27_Base + 1, TUBE_CHARS[call.args.char][2]>> >>

\* an index outside 0..3 or a character outside the 18 table entries fails
\* with no write
C27_Rejects ==
    /\ DOMAIN TUBE_CHARS = C27_Table
    /\ (call.op \in C27_CharOps /\ call.pre.is_initialized /\ ~C27_Valid) =>
          (~result.ok /\ log = <<>>)

\* C27 as claimed: display_char_left / display_char_right on a Ready display
\* fail with no write on an index outside 0..3 or a character outside the 18
\* table entries, and otherwise write exactly two registers: reg1 at the slot
\* base and reg2 at base + 1.
C27_CharExactlyTwoWrites ==
    /\ C27_Rejects
    /\ (call.op \in C27_CharOps /\ call.pre.is_initialized /\ C27_Valid) =>
          /\ Len(log) = 2
          /\ \A k \in 1 .. 2 : log[k].op = "write" /\ log[k].data = C27_Pair[k]

\* C27 amended: the same rejections; otherwise reg1 is written at the slot
\* base and, only if that write succeeded, reg2 at base + 1: two writes when
\* the first succeeds, one when it fails, and True exactly when both
\* succeeded.
C27_CharWrites ==
    /\ C27_Rejects
    /\ (call.op \in C27_CharOps /\ call.pre.is_initialized /\ C27_Valid) =>
          /\ StopsAtFirstFailure(log, C27_Pair)
          /\ Len(log) >= 1
          /\ result.ok = (Len(log) = 2 /\ AllOk(log))

\* a lowercase f at index 0 on a Ready display is refused, though F is in the table
C27_Witness ==
    /\ call.op = "display_char_left" /\ call.pre.is_initialized /\ call.pre.cls = "HT16K33"
    /\ call.args.index = 0 /\ call.args.char = "f"
    /\ ~result.ok /\ log = <<>>

\* the first write of a valid character fails: one write, no second
C27_WitnessCut ==
    /\ call.op = "display_char_right" /\ call.pre.is_initialized
    /\ call.args.index = 3 /\ call.args.char = "F"
    /\ Len(log) = 1 /\ log[1].data = <<2, 136>> /\ ~log[1].ok /\ ~result.ok

\* the transfers of the call that failed
C28_Glitch == {k \in 1 .. Len(log) : ~log[k].ok}

\* the same character shown from the other end, at slot 3 - index, on the
\* same device under the same failures
C28_Mirror ==
    IF call.op = "display_char_left"
    THEN Dev_display_char_right(NewWorld(bus, C28_Glitch, <<>>), call.pre,
                                3 - call.args.index, call.args.char)
    ELSE Dev_display_char_left(NewWorld(bus, C28_Glitch, <<>>), call.pre,
                               3 - call.args.index, call.args.char)

\* the registers that clear() zeroes
C28_Cleared == {ClearWrites[i][1] : i \in DOMAIN ClearWrites}

\* C28: for every index i in 0..3 and table character c, display_char_left(i, c)
\* and display_char_right(3 - i, c) write the same registers with the same
\* values; the base is 0x02 + 2*i from the left and 0x08 - 2*i from the right,
\* and each write lands in the range 0x02..0x09 that clear() zeroes.
C28_LeftRightMirror ==
    (call.op \in C27_CharOps /\ call.pre.is_initialized /\ C27_Valid) =>
        /\ log = C28_Mirror.w.log
        /\ result.ok = C28_Mirror.w.ret
        /\ Len(log) >= 1 /\ log[1].data[1] = C27_Base
        /\ C28_Cleared = 2 .. 9
        /\ \A k \in 1 .. Len(log) : log[k].op = "write" /\ log[k].data[1] \in C28_Cleared

\* 'A' at slot 1 from the left lands on registers 4 and 5, as slot 2 from the right
C28_Witness ==
    /\ call.op = "display_char_left" /\ call.pre.is_initialized
    /\ call.args.index = 1 /\ call.args.char = "A"
    /\ Len(log) = 2 /\ AllOk(log) /\ result.ok
    /\ log[1].data[1] = 4 /\ log[2].data[1] = 5
    /\ RegWrites(C28_Mirror.w.log) = log

C29_DeviceOps == {"set_pwm", "display_char_left", "display_char_right", "display_string"}

\* the call is one of the four operations, on a Ready device
C29_Call ==
    \/ call.op \in C29_DeviceOps /\ call.pre.is_initialized
    \/ call.op = "E1.set_led_color"

\* C29: within one set_pwm, set_led_color, display_char or display_string call
\* on a Ready device the first failed write ends the call with a failure
\* result: no transfer is attempted after a failed one, and a call with a
\* failed write does not report success.
C29_FirstFailureEndsCall ==
    C29_Call =>
        /\ \A k \in 1 .. Len(log) : log[k].op = "write"
        /\ \A k \in 1 .. (Len(log) - 1) : log[k].ok
        /\ ~AllOk(log) => ~result.ok

\* register r received a write of this call: it holds what the call last
\* delivered to it; a register with no delivered write keeps its old content
C30_Delivered(r) ==
    \E k \in 1 .. Len(log) : log[k].op = "write" /\ log[k].ok /\ log[k].data[1] = r

\* the value left in register r by the last write delivered to it
C30_Holds(r) ==
    LET ks == {k \in 1 .. Len(log) : log[k].op = "write" /\ log[k].ok /\ log[k].data[1] = r}
        last == CHOOSE k \in ks : \A j \in ks : j <= k
    IN  log[last].data[2]

\* the pattern bytes of the characters of the table
C30_Patterns == UNION {{TUBE_CHARS[c][1], TUBE_CHARS[c][2]} : c \in DOMAIN TUBE_CHARS}

\* C30: if display_string on a Ready display returns True, each of the eight
\* digit registers 0x02..0x09 holds zero or a pattern byte written by this
\* call: success is never reported when the clearing step failed to zero a
\* register that the call does not overwrite.
C30_SuccessMeansCleared ==
    (call.op = "display_string" /\ call.pre.is_initialized /\ result.ok) =>
        \A r \in 2 .. 9 :
            /\ C30_Delivered(r)
            /\ C30_Holds(r) \in {0} \cup C30_Patterns

\* C31: read_key / get_key return an explicit (success, code) pair and never
\* raise, whatever the block read does, a read that succeeds with fewer than
\* 6 bytes included.
C31_ReadKeyNeverRaises ==
    call.op = "read_key" =>
        /\ result.val # IndexError
        /\ result.val \in 0 .. 12
        /\ ~result.ok => result.val = 0

\* the scan found a door: one of its probe reads was answered
C32_ScanFound == \E k \in 1 .. Len(log) : log[k].op = "read" /\ log[k].ok

\* the fixed-address path ran: the call ends with a select and a write with
\* no read between them
C32_Taken ==
    /\ Len(log) >= 2
    /\ log[Len(log) - 1].op = "select"
    /\ log[Len(log)].op = "write"

\* C32: the fixed-address path of E3DeviceManager reads nothing: it selects
\* 0x1C on the retained bus and initializes at once; the door slot is filled
\* exactly when the single write of 0 to register 0x03 succeeds, and the path
\* runs only when the scan left the slot empty and a bus is retained.
C32_FixedAddressPath ==
    call.op = "E3.__init__" =>
        /\ C32_Taken =>
              /\ ~C32_ScanFound
              /\ i2c # None /\ bus[i2c].fd > 0
              /\ log[Len(log) - 1] = Event("select", i2c, 28, <<>>, TRUE)
              /\ log[Len(log)].data = <<3, 0>>
              /\ log[Len(log)].bus = i2c /\ log[Len(log)].addr = 28
              /\ door = IF log[Len(log)].ok
                        THEN [cls |-> "E3Door", bus |-> i2c, address |-> 28,
                              is_initialized |-> TRUE]
                        ELSE NoDev
        /\ (~C32_Taken /\ ~C32_ScanFound) => (door = NoDev /\ i2c = None)
        /\ C32_ScanFound => (~C32_Taken /\ door # NoDev /\ door.bus = i2c)

\* a door answers at 0x1D on bus 2 but its probe read fails; the fixed
\* address on bus 5 is tried and its write fails too: the slot stays empty
C32_Witness ==
    /\ call.op = "E3.__init__" /\ openable = {2, 5} /\ <<2, 29>> \in answers
    /\ C32_Taken /\ ~log[Len(log)].ok /\ door = NoDev /\ i2c = 5

\* the same scan with the write going through: the door is at 0x1C on bus 5
C32_WitnessFilled ==
    /\ call.op = "E3.__init__" /\ openable = {2, 5} /\ <<2, 29>> \in answers
    /\ C32_Taken /\ log[Len(log)].ok /\ door # NoDev /\ door.address = 28

C33_CloseOps == {"E1.close", "E2.close", "E3.close", "S1.close"}

C33_BoardOps ==
    {"E1.set_led_color", "E1.display_tube_string", "E2.set_fan_speed",
     "E3.set_door_position", "S1.get_key"}

\* the manager m as close() leaves it: no device, no bus
C33_Closed(m) ==
    /\ m.buses = <<>> /\ m.led_devices = NoDevices /\ m.tube_devices = NoDevices
    /\ m.fan = NoDev /\ m.door = NoDev /\ m.keypad = NoDev
    /\ m.i2c = None

\* the buses whose handles the manager m retains
C33_Retained(m) ==
    {m.buses[k] : k \in 1 .. Len(m.buses)} \cup (IF m.i2c # None THEN {m.i2c} ELSE {})

C33_WitnessAgain ==
    /\ call.op = "S1.close" /\ C33_Closed(call.pre) /\ log = <<>>
    /\ \E b \in BusNums : bus[b].fd = FD_CLOSED

C34_Codecs == {"PCA9685", "E2PCA9685"}

\* the same device object as an instance of the other codec
C34_Twin(d) == [d EXCEPT !.cls = IF d.cls = "PCA9685" THEN "E2PCA9685" ELSE "PCA9685"]

\* the call made on the twin, the bus failing at the same transfers
C34_Other ==
    LET w0 == NewWorld(bus, {k \in 1 .. Len(log) : ~log[k].ok}, <<>>)
    IN  IF call.op = "initialize"
        THEN Dev_initialize(w0, C34_Twin(call.pre))
        ELSE Dev_set_pwm(w0, C34_Twin(call.pre), call.args[1], call.args[2], call.args[3])

\* C34: PCA9685 and E2PCA9685 are the same algorithm: from the same state,
\* with the same address and the same bus responses, initialize() and
\* set_pwm(channel, on, off) give the same register writes, the same result
\* and the same Ready flag in both classes.
C34_SameAlgorithm ==
    (call.op \in {"initialize", "set_pwm"} /\ call.pre.cls \in C34_Codecs) =>
        /\ log = C34_Other.w.log
        /\ result.ok = C34_Other.w.ret
        /\ dev.is_initialized = C34_Other.d.is_initialized

\* the same for set_pwm alone
C34_SameSetPwm ==
    (call.op = "set_pwm" /\ call.pre.cls \in C34_Codecs) =>
        /\ log = C34_Other.w.log
        /\ result.ok = C34_Other.w.ret
        /\ dev.is_initialized = C34_Other.d.is_initialized

\* the register and value of each two-byte write among the events of l
C35_RegData(l) == [k \in 1 .. Len(RegWrites(l)) |-> RegWrites(l)[k].data]

\* HT16K33.display_string of the same text on a Ready display at the same
\* address of the same bus, every transfer succeeding
C35_Reference ==
    HT16K33_display_string(NewWorld(bus, {}, <<>>),
                           [cls |-> "HT16K33", bus |-> call.pre.tube.bus,
                            address |-> call.pre.tube.address, is_initialized |-> TRUE],
                           call.args.text, call.args.align_right)

\* a right-aligned display of a text of table characters, nothing failing
C35_Case ==
    /\ call.op = "Simple.display_tube_string" /\ call.pre.tube # NoDev
    /\ call.args.align_right /\ Len(call.args.text) >= 1
    /\ \A k \in 1 .. Len(call.args.text) : call.args.text[k] \in DOMAIN TUBE_CHARS
    /\ AllOk(log)

\* C35: simple_manager's display_string with align_right puts the last
\* character of the text cut to 4 in the rightmost slot (registers 0x08 and
\* 0x09), and assigns every slot as HT16K33.display_string does for the text.
C35_SimpleRightAligned ==
    C35_Case =>
        LET t == Truncate4(call.args.text)
            rd == C35_RegData(log)
        IN  /\ \E k \in 1 .. Len(rd) : rd[k] = <<8, TUBE_CHARS[t[Len(t)]][1]>>
            /\ \E k \in 1 .. Len(rd) : rd[k] = <<9, TUBE_CHARS[t[Len(t)]][2]>>
            /\ rd = C35_RegData(C35_Reference.w.log)

\* C36: after SimpleE1Manager's scan and close() no descriptor opened by the
\* scan is open, whichever buses open and whichever addresses answer: each
\* one is a retained led_fd / tube_fd that close() closes, or was closed
\* during the scan.
C36_SimpleNothingLeftOpen ==
    call.op = "Simple.close" => \A b \in BusNums : bus[b].fd <= 0

====
